---- MODULE Spec2Model ----
(***************************************************************************)
(* A model of litegodb's storage core: the B-Tree engine, the paged file,  *)
(* the write-ahead log, the catalog, the key-value store and the           *)
(* transaction coordinator.                                                *)
(*                                                                         *)
(* Go pointers are modelled by a heap: a sequence of node records, a node  *)
(* reference being its index.  Between operations a tree is kept as a      *)
(* nested value (the heap reachable from the root), which is what Go's     *)
(* garbage collector leaves as well.  Go slice indices are 0-based, so     *)
(* every slice access goes through At / SliceFrom / SliceTo.               *)
(***************************************************************************)
EXTENDS Integers, Sequences, FiniteSets, TLC

\* ------------------------------------------------------------------ bounds
MaxKey == 6
MaxDegree == 3
MaxOps == 7
MaxDistinctOps == 9
MaxKVKey == 3
MaxLog == 4
MaxCrashes == 1
MaxKVDegree == 2
MaxConcLog == 2
MaxTxOps == 3
MaxTxLog == 2
MaxCommits == 1
MaxPages == 2
MaxCatLog == 1
MaxFree == 1
MaxCatKey == 2
MaxLogLines == 3
MaxDeepKey == 12
MaxDeepDeletes == 4
MaxRecords == 2
MaxRollOps == 2
MaxRows == 2
MaxFreed == 3
MaxAllocs == 3
MaxReopenLog == 2
MaxFlushKey == 4
MaxFlushLog == 4

Keys == 1..MaxKey
Vals == {"a", "b"}
Degrees == 1..MaxDegree
KVKeys == 1..MaxKVKey
Threads == {1, 2}
KVDegrees == 1..MaxKVDegree
KVTables == {"users"}
KVVals == {"a"}

CatKeys == 1..MaxCatKey

\* ------------------------------------------------------- Go slice idioms
At(s, i) == s[i + 1]

SliceFrom(s, lo) == SubSeq(s, lo + 1, Len(s))

SliceTo(s, hi) == SubSeq(s, 1, hi)

InsertAt(s, i, x) == SliceTo(s, i) \o <<x>> \o SliceFrom(s, i)

RemoveAt(s, i) == SliceTo(s, i) \o SliceFrom(s, i + 1)

SetAt(s, i, x) == [s EXCEPT ![i + 1] = x]

\* for i < len(keys) && keys[i] < x { i++ }
RECURSIVE SkipLess(_, _, _)
SkipLess(keys, x, i) ==
  IF i < Len(keys) /\ At(keys, i) < x THEN SkipLess(keys, x, i + 1) ELSE i

\* for i >= 0 && key < keys[i] { i-- }
RECURSIVE SkipGreater(_, _, _)
SkipGreater(keys, key, i) ==
  IF i >= 0 /\ key < At(keys, i) THEN SkipGreater(keys, key, i - 1) ELSE i

\* for idx, k := range keys { if k == key { ... return } } ; -1 when absent
RECURSIVE IndexOf(_, _, _)
IndexOf(keys, key, i) ==
  IF i >= Len(keys) THEN -1
  ELSE IF At(keys, i) = key THEN i ELSE IndexOf(keys, key, i + 1)

\* The one element of a singleton set.  { F(r) : r \in {call} } evaluates
\* the call once and goes on with its result, as a Go statement does.
The(S) == CHOOSE y \in S : TRUE

\* ------------------------------------------------------------ B-Tree: nodes
\* A node on the heap; children holds heap references.
Node(id, keys, values, children, isLeaf) ==
  [id |-> id, keys |-> keys, values |-> values, children |-> children,
   isLeaf |-> isLeaf]

\* A tree at work: heap h, root reference, minimum degree, and whether the
\* running operation has panicked (the heap is then as the panic left it).
BTree(h, root, degree) ==
  [h |-> h, root |-> root, degree |-> degree, panic |-> FALSE]

Panic(t) == [t EXCEPT !.panic = TRUE]

NewBTree(degree) ==
  LET d == IF degree < 2 THEN 2 ELSE degree
  IN  [root |-> [id |-> 0, keys |-> <<>>, values |-> <<>>, children |-> <<>>,
                 isLeaf |-> TRUE],
       degree |-> d]

\* nested value -> heap (children first, the node last)
RECURSIVE HeapOfNode(_, _)
HeapOfNode(h, n) ==
  LET RECURSIVE Kids(_, _, _)
      Kids(hh, ids, i) ==
        IF i > Len(n.children) THEN [h |-> hh, ids |-> ids]
        ELSE LET r == HeapOfNode(hh, n.children[i])
             IN  Kids(r.h, Append(ids, r.id), i + 1)
      k == Kids(h, <<>>, 1)
  IN  [h |-> Append(k.h, Node(n.id, n.keys, n.values, k.ids, n.isLeaf)),
       id |-> Len(k.h) + 1]

HeapOf(tree) ==
  LET r == HeapOfNode(<<>>, tree.root)
  IN  BTree(r.h, r.id, tree.degree)

\* heap -> nested value: what is reachable from the root
RECURSIVE NodeOf(_, _)
NodeOf(h, id) ==
  [id |-> h[id].id, keys |-> h[id].keys, values |-> h[id].values,
   children |-> [i \in 1..Len(h[id].children) |-> NodeOf(h, h[id].children[i])],
   isLeaf |-> h[id].isLeaf]

TreeOf(t) == [root |-> NodeOf(t.h, t.root), degree |-> t.degree]

\* ----------------------------------------------------------- B-Tree: Insert
\* a split whose new sibling is always marked a leaf
splitChildAsLeaf(t, parent, childIndex) ==
  LET p == t.h[parent]
      c == At(p.children, childIndex)
      child == t.h[c]
      mid == t.degree - 1
      newChild == Node(0, SliceFrom(child.keys, mid + 1),
                       SliceFrom(child.values, mid + 1),
                       IF ~child.isLeaf THEN SliceFrom(child.children, mid + 1)
                       ELSE <<>>,
                       TRUE)
      newId == Len(t.h) + 1
      insertAt == SkipLess(p.keys, At(child.keys, mid), 0)
      p2 == [p EXCEPT !.keys = InsertAt(p.keys, insertAt, At(child.keys, mid)),
                      !.values = InsertAt(p.values, insertAt, At(child.values, mid)),
                      !.children = InsertAt(p.children, insertAt + 1, newId)]
      child2 == [child EXCEPT !.keys = SliceTo(child.keys, mid),
                              !.values = SliceTo(child.values, mid),
                              !.children = IF ~child.isLeaf
                                           THEN SliceTo(child.children, mid + 1)
                                           ELSE @]
  IN  [t EXCEPT !.h = Append([@ EXCEPT ![parent] = p2, ![c] = child2], newChild)]

splitChild(t, parent, childIndex) ==
  LET p == t.h[parent]
      c == At(p.children, childIndex)
      child == t.h[c]
      mid == t.degree - 1
      newChild == Node(0, SliceFrom(child.keys, mid + 1),
                       SliceFrom(child.values, mid + 1),
                       IF ~child.isLeaf THEN SliceFrom(child.children, mid + 1)
                       ELSE <<>>,
                       child.isLeaf)
      newId == Len(t.h) + 1
      insertAt == SkipLess(p.keys, At(child.keys, mid), 0)
      p2 == [p EXCEPT !.keys = InsertAt(p.keys, insertAt, At(child.keys, mid)),
                      !.values = InsertAt(p.values, insertAt, At(child.values, mid)),
                      !.children = InsertAt(p.children, insertAt + 1, newId)]
      child2 == [child EXCEPT !.keys = SliceTo(child.keys, mid),
                              !.values = SliceTo(child.values, mid),
                              !.children = IF ~child.isLeaf
                                           THEN SliceTo(child.children, mid + 1)
                                           ELSE @]
  IN  [t EXCEPT !.h = Append([@ EXCEPT ![parent] = p2, ![c] = child2], newChild)]

RECURSIVE insertNonFull(_, _, _, _)
insertNonFull(t, node, key, value) ==
  LET n == t.h[node]
      dup == IndexOf(n.keys, key, 0)
      i == SkipGreater(n.keys, key, Len(n.keys) - 1) + 1
  IN  IF n.isLeaf
      THEN IF dup >= 0
           THEN [t EXCEPT !.h[node].values = SetAt(n.values, dup, value)]
           ELSE [t EXCEPT !.h[node].keys = InsertAt(n.keys, i, key),
                          !.h[node].values = InsertAt(n.values, i, value)]
      ELSE IF i >= Len(n.children)
           THEN Panic(t)
           ELSE IF Len(t.h[At(n.children, i)].keys) = 2 * t.degree - 1
                THEN LET t2 == splitChild(t, node, i)
                         n2 == t2.h[node]
                         j == IF key > At(n2.keys, i) THEN i + 1 ELSE i
                     IN  insertNonFull(t2, At(n2.children, j), key, value)
                ELSE insertNonFull(t, At(n.children, i), key, value)

InsertHeap(t, key, value) ==
  IF Len(t.h[t.root].keys) = 2 * t.degree - 1
  THEN LET newRoot == Len(t.h) + 1
           t2 == [t EXCEPT !.h = Append(@, Node(0, <<>>, <<>>, <<t.root>>, FALSE)),
                           !.root = newRoot]
       IN  insertNonFull(splitChild(t2, newRoot, 0), newRoot, key, value)
  ELSE insertNonFull(t, t.root, key, value)

\* ----------------------------------------------------------- B-Tree: Search
NotFound == [value |-> "", found |-> FALSE, panic |-> FALSE]

RECURSIVE searchNode(_, _)
searchNode(n, key) ==
  LET i == SkipLess(n.keys, key, 0)
  IN  IF i < Len(n.keys) /\ key = At(n.keys, i)
      THEN [value |-> At(n.values, i), found |-> TRUE, panic |-> FALSE]
      ELSE IF n.isLeaf THEN NotFound
      ELSE IF i >= Len(n.children)
           THEN [value |-> "", found |-> FALSE, panic |-> TRUE]
           ELSE searchNode(At(n.children, i), key)

Search(tree, key) == searchNode(tree.root, key)

\* ----------------------------------------------------------- B-Tree: Delete
KeyValue(key, value, panic) == [key |-> key, value |-> value, panic |-> panic]

RECURSIVE getPredecessorFrom(_, _)
getPredecessorFrom(t, current) ==
  LET c == t.h[current]
  IN  IF ~c.isLeaf
      THEN IF Len(c.children) = 0 THEN KeyValue(0, "", TRUE)
           ELSE getPredecessorFrom(t, At(c.children, Len(c.children) - 1))
      ELSE IF Len(c.keys) = 0 THEN KeyValue(0, "", TRUE)
           ELSE KeyValue(At(c.keys, Len(c.keys) - 1),
                         At(c.values, Len(c.values) - 1), FALSE)

getPredecessor(t, node, idx) ==
  getPredecessorFrom(t, At(t.h[node].children, idx))

RECURSIVE getSuccessorFrom(_, _)
getSuccessorFrom(t, current) ==
  LET c == t.h[current]
  IN  IF ~c.isLeaf
      THEN IF Len(c.children) = 0 THEN KeyValue(0, "", TRUE)
           ELSE getSuccessorFrom(t, At(c.children, 0))
      ELSE IF Len(c.keys) = 0 THEN KeyValue(0, "", TRUE)
           ELSE KeyValue(At(c.keys, 0), At(c.values, 0), FALSE)

getSuccessor(t, node, idx) ==
  getSuccessorFrom(t, At(t.h[node].children, idx + 1))

borrowFromLeft(t, node, idx) ==
  LET n == t.h[node]
      c == At(n.children, idx)
      s == At(n.children, idx - 1)
      child == t.h[c]
      sibling == t.h[s]
      child2 == [child EXCEPT
                   !.keys = <<At(n.keys, idx - 1)>> \o @,
                   !.values = <<At(n.values, idx - 1)>> \o @,
                   !.children = IF ~child.isLeaf
                                THEN <<At(sibling.children, Len(sibling.children) - 1)>> \o @
                                ELSE @]
      n2 == [n EXCEPT
               !.keys = SetAt(@, idx - 1, At(sibling.keys, Len(sibling.keys) - 1)),
               !.values = SetAt(@, idx - 1, At(sibling.values, Len(sibling.values) - 1))]
      sibling2 == [sibling EXCEPT
                     !.children = IF ~child.isLeaf THEN SliceTo(@, Len(@) - 1) ELSE @,
                     !.keys = SliceTo(@, Len(@) - 1),
                     !.values = SliceTo(@, Len(@) - 1)]
  IN  IF ~child.isLeaf /\ Len(sibling.children) = 0
      THEN Panic(t)
      ELSE [t EXCEPT !.h = [@ EXCEPT ![c] = child2, ![node] = n2, ![s] = sibling2]]

\* a borrow that leaves the child it moves in the sibling as well
borrowFromRightKeepsChild(t, node, idx) ==
  LET n == t.h[node]
      c == At(n.children, idx)
      s == At(n.children, idx + 1)
      child == t.h[c]
      sibling == t.h[s]
      child2 == [child EXCEPT
                   !.keys = Append(@, At(n.keys, idx)),
                   !.values = Append(@, At(n.values, idx)),
                   !.children = IF ~child.isLeaf
                                THEN Append(@, At(sibling.children, 0))
                                ELSE @]
      n2 == [n EXCEPT !.keys = SetAt(@, idx, At(sibling.keys, 0)),
                      !.values = SetAt(@, idx, At(sibling.values, 0))]
      sibling2 == [sibling EXCEPT
                     !.keys = SliceFrom(@, 1),
                     !.values = SliceFrom(@, 1)]
  IN  IF ~child.isLeaf /\ Len(sibling.children) = 0
      THEN Panic(t)
      ELSE [t EXCEPT !.h = [@ EXCEPT ![c] = child2, ![node] = n2, ![s] = sibling2]]

borrowFromRight(t, node, idx) ==
  LET n == t.h[node]
      c == At(n.children, idx)
      s == At(n.children, idx + 1)
      child == t.h[c]
      sibling == t.h[s]
      child2 == [child EXCEPT
                   !.keys = Append(@, At(n.keys, idx)),
                   !.values = Append(@, At(n.values, idx)),
                   !.children = IF ~child.isLeaf
                                THEN Append(@, At(sibling.children, 0))
                                ELSE @]
      n2 == [n EXCEPT !.keys = SetAt(@, idx, At(sibling.keys, 0)),
                      !.values = SetAt(@, idx, At(sibling.values, 0))]
      sibling2 == [sibling EXCEPT
                     !.children = IF ~child.isLeaf THEN SliceFrom(@, 1) ELSE @,
                     !.keys = SliceFrom(@, 1),
                     !.values = SliceFrom(@, 1)]
  IN  IF ~child.isLeaf /\ Len(sibling.children) = 0
      THEN Panic(t)
      ELSE [t EXCEPT !.h = [@ EXCEPT ![c] = child2, ![node] = n2, ![s] = sibling2]]

merge(t, parent, idx) ==
  LET p == t.h[parent]
      l == At(p.children, idx)
      r == At(p.children, idx + 1)
      left == t.h[l]
      right == t.h[r]
      left2 == [left EXCEPT
                  !.keys = Append(@, At(p.keys, idx)) \o right.keys,
                  !.values = Append(@, At(p.values, idx)) \o right.values,
                  !.children = IF ~left.isLeaf THEN @ \o right.children ELSE @]
      p2 == [p EXCEPT !.keys = RemoveAt(@, idx),
                      !.values = RemoveAt(@, idx),
                      !.children = RemoveAt(@, idx + 1)]
  IN  IF parent = t.root /\ Len(p.children) = 1
      THEN [t EXCEPT !.root = At(p.children, 0)]
      ELSE IF idx < 0 \/ idx >= Len(p.children) - 1
      THEN Panic(t)
      ELSE [t EXCEPT !.h = [@ EXCEPT ![l] = left2, ![parent] = p2],
                     !.root = IF parent = t.root /\ Len(p2.keys) = 0 THEN l ELSE @]

ensureChildHasEnoughKeys(t, node, idx) ==
  LET n == t.h[node]
  IN  IF node = t.root /\ Len(n.children) = 1
      THEN [t EXCEPT !.root = At(n.children, idx)]
      ELSE IF idx > 0 /\ Len(t.h[At(n.children, idx - 1)].keys) >= t.degree
      THEN borrowFromLeft(t, node, idx)
      ELSE IF idx < Len(n.children) - 1
              /\ Len(t.h[At(n.children, idx + 1)].keys) >= t.degree
      THEN borrowFromRight(t, node, idx)
      ELSE IF idx = 0 THEN merge(t, node, 0) ELSE merge(t, node, idx - 1)

\* delete and deleteInternalNodeKey call each other.  kind says which one
\* this is: "delete" (idx unused) or "internal".
RECURSIVE deleteRec(_, _, _, _, _)
deleteRec(kind, t, node, key, idx0) ==
  LET n == t.h[node]
      \* t.delete(node.children[i], k) once t2 has been computed
      Descend(t2, i, k) ==
        IF t2.panic THEN t2
        ELSE IF i >= Len(t2.h[node].children) THEN Panic(t2)
        ELSE deleteRec("delete", t2, At(t2.h[node].children, i), k, 0)
  IN
  IF kind = "delete"
  THEN LET idx == SkipLess(n.keys, key, 0)
       IN  IF idx < Len(n.keys) /\ At(n.keys, idx) = key
           THEN IF n.isLeaf
                THEN [t EXCEPT !.h[node].keys = RemoveAt(n.keys, idx),
                               !.h[node].values = RemoveAt(n.values, idx)]
                ELSE deleteRec("internal", t, node, key, idx)
           ELSE IF n.isLeaf THEN t
           ELSE IF idx >= Len(n.children) THEN t
           ELSE IF Len(t.h[At(n.children, idx)].keys) < t.degree
                THEN Descend(ensureChildHasEnoughKeys(t, node, idx), idx, key)
                ELSE Descend(t, idx, key)
  ELSE LET idx == idx0
       IN  IF idx >= Len(n.children) THEN Panic(t)
           ELSE IF Len(t.h[At(n.children, idx)].keys) >= t.degree
           THEN LET predecessor == getPredecessor(t, node, idx)
                IN  IF predecessor.panic THEN Panic(t)
                    ELSE Descend([t EXCEPT
                                    !.h[node].keys = SetAt(@, idx, predecessor.key),
                                    !.h[node].values = SetAt(@, idx, predecessor.value)],
                                 idx, predecessor.key)
           ELSE IF idx + 1 >= Len(n.children) THEN Panic(t)
           ELSE IF Len(t.h[At(n.children, idx + 1)].keys) >= t.degree
           THEN LET successor == getSuccessor(t, node, idx)
                IN  IF successor.panic THEN Panic(t)
                    ELSE Descend([t EXCEPT
                                    !.h[node].keys = SetAt(@, idx, successor.key),
                                    !.h[node].values = SetAt(@, idx, successor.value)],
                                 idx + 1, successor.key)
           ELSE Descend(merge(t, node, idx), idx, key)

delete(t, node, key) == deleteRec("delete", t, node, key, 0)

deleteInternalNodeKey(t, node, key, idx) == deleteRec("internal", t, node, key, idx)

\* ------------------------------------------------- B-Tree: the public calls
\* The result of a call on a tree value: the tree it leaves and whether the
\* call panicked.
Outcome(t) == [tree |-> TreeOf(t), panic |-> t.panic]

Insert(tree, key, value) == Outcome(InsertHeap(HeapOf(tree), key, value))

Delete(tree, key) ==
  LET t == HeapOf(tree) IN Outcome(delete(t, t.root, key))

\* ======================================================================
\* The store: pages, catalog, write-ahead log, tables
\* ======================================================================
Tables == {"users", "orders"}

NoTree == [none |-> "tree"]
NoMeta == [none |-> "meta"]

\* ------------------------------------------------------------ disk manager
ZeroPage == [kind |-> "zero"]

\* The Go-side result of a call: the store it leaves, whether it returned an
\* error, whether it panicked.
Ok(kv) == [kv |-> kv, err |-> FALSE, panic |-> FALSE]

Err(kv) == [kv |-> kv, err |-> TRUE, panic |-> FALSE]

Abort(kv) == [kv |-> kv, err |-> FALSE, panic |-> TRUE]

\* os.OpenFile + file.Stat: nextID is the number of whole pages in the file
NewFileDiskManager(file) == [file |-> file, nextID |-> Len(file), fl |-> <<>>]

\* variant: the free list read as a queue, oldest id first
AllocatePageOldest(kv) ==
  IF Len(kv.fl) > 0
  THEN [kv |-> [kv EXCEPT !.fl = SliceFrom(@, 1)], id |-> At(kv.fl, 0)]
  ELSE [kv |-> [kv EXCEPT !.nextID = @ + 1], id |-> kv.nextID]

AllocatePage(kv) ==
  IF Len(kv.fl) > 0
  THEN [kv |-> [kv EXCEPT !.fl = SliceTo(@, Len(@) - 1)],
        id |-> At(kv.fl, Len(kv.fl) - 1)]
  ELSE [kv |-> [kv EXCEPT !.nextID = @ + 1], id |-> kv.nextID]

\* FreePage puts any page id on the free list
FreePage(kv, id) == [kv EXCEPT !.fl = Append(@, id)]

\* WriteAt(data, id*PageSize): a write past the end leaves the gap zero-filled
WritePage(kv, id, data) ==
  IF kv.closed \/ kv.diskClosed \/ id < 0 THEN Err(kv)
  ELSE LET n == IF Len(kv.file) > id + 1 THEN Len(kv.file) ELSE id + 1
       IN  Ok([kv EXCEPT !.file = [i \in 1..n |->
                                     IF i = id + 1 THEN data
                                     ELSE IF i <= Len(kv.file) THEN kv.file[i]
                                     ELSE ZeroPage]])

\* ReadAt(data, id*PageSize): fails when the page lies beyond end-of-file
ReadPage(kv, id) ==
  IF kv.closed \/ kv.diskClosed \/ id < 0 \/ id >= Len(kv.file)
  THEN [err |-> TRUE, data |-> ZeroPage]
  ELSE [err |-> FALSE, data |-> At(kv.file, id)]

GetPageDataByID(kv, pageID) == ReadPage(kv, pageID)

\* ------------------------------------------------- B-Tree: (de)serialization
\* One node: its own fields and the ids of its children, nothing of their
\* contents.
serializeNode(tree, node) ==
  [kind |-> "node", id |-> node.id, isLeaf |-> node.isLeaf,
   degree |-> tree.degree, keys |-> node.keys, values |-> node.values,
   children |-> [i \in 1..Len(node.children) |-> node.children[i].id]]

Serialize(tree) == serializeNode(tree, tree.root)

\* Deserialize reads a page as a node and fetches every child by its id.
\* A zero-filled page reads as id 0, isLeaf false, degree 0, no keys, no
\* children.  A catalog page read as a node (table names of five or more
\* ASCII letters) announces about 2^30 keys and the read runs off the end of
\* the page: an error.  A catalog page of no tables is all zeroes.
RECURSIVE DeserializeNode(_, _)
DeserializeNode(kv, data) ==
  IF data.kind = "catalog" /\ \E t \in Tables : data.tables[t] # NoMeta
  THEN [err |-> TRUE, root |-> NoTree, degree |-> 0]
  ELSE IF data.kind \in {"zero", "catalog"}
  THEN [err |-> FALSE, degree |-> 0,
        root |-> [id |-> 0, keys |-> <<>>, values |-> <<>>, children |-> <<>>,
                  isLeaf |-> FALSE]]
  ELSE LET Child(i) ==
             LET childData == GetPageDataByID(kv, data.children[i])
             IN  IF childData.err THEN [err |-> TRUE, root |-> NoTree, degree |-> 0]
                 ELSE DeserializeNode(kv, childData.data)
           kids == [i \in 1..Len(data.children) |-> Child(i)]
       IN  IF \E i \in 1..Len(data.children) : kids[i].err
           THEN [err |-> TRUE, root |-> NoTree, degree |-> 0]
           ELSE [err |-> FALSE, degree |-> data.degree,
                 root |-> [id |-> data.id, keys |-> data.keys,
                           values |-> data.values,
                           children |-> [i \in 1..Len(data.children) |-> kids[i].root],
                           isLeaf |-> data.isLeaf]]

Deserialize(kv, data) ==
  LET r == DeserializeNode(kv, data)
  IN  IF r.err THEN [err |-> TRUE, tree |-> NoTree]
      ELSE [err |-> FALSE,
            tree |-> [root |-> r.root, degree |-> NewBTree(r.degree).degree]]

\* ------------------------------------------------------------------ catalog
\* the zero time.Time, which is what a TableMetadata literal without
\* CreatedAt holds
ZeroTime == 0

TableMetadata(name, degree, rootID) ==
  [Name |-> name, RootID |-> rootID, Degree |-> degree,
   CreatedAt |-> ZeroTime, RowCount |-> 0]

NewCatalog == [t \in Tables |-> NoMeta]

CatalogCreateTable(kv, name, degree, rootID) ==
  IF kv.catalog[name] # NoMeta THEN Err(kv)
  ELSE Ok([kv EXCEPT !.catalog[name] = TableMetadata(name, degree, rootID)])

CatalogDropTable(kv, name) ==
  IF kv.catalog[name] = NoMeta THEN Err(kv)
  ELSE Ok([kv EXCEPT !.catalog[name] = NoMeta])

\* IncrementRowCount and DecrementRowCount, which floors at 0
IncrementRowCount(kv, name) ==
  IF kv.catalog[name] = NoMeta THEN Err(kv)
  ELSE Ok([kv EXCEPT !.catalog[name].RowCount = @ + 1])

DecrementRowCount(kv, name) ==
  IF kv.catalog[name] = NoMeta THEN Err(kv)
  ELSE Ok([kv EXCEPT !.catalog[name].RowCount = IF @ > 0 THEN @ - 1 ELSE 0])

\* the bytes Save writes for one table: name, root id and degree
SavedEntry(meta) ==
  IF meta = NoMeta THEN NoMeta
  ELSE [Name |-> meta.Name, RootID |-> meta.RootID, Degree |-> meta.Degree]

\* Save writes count, then name, root id and degree of every table, to page 0
CatalogSave(kv) ==
  WritePage(kv, 0, [kind |-> "catalog",
                    tables |-> [t \in Tables |-> SavedEntry(kv.catalog[t])]])

\* the TableMetadata Load builds from one saved entry
LoadedEntry(e) ==
  IF e = NoMeta THEN NoMeta ELSE TableMetadata(e.Name, e.Degree, e.RootID)

\* Load replaces the map by what page 0 holds; a page without a catalog in
\* it (zero-filled, or a node, whose id 0 reads as a table count of 0) gives
\* the empty map.
CatalogLoad(kv) ==
  LET page == ReadPage(kv, 0)
  IN  IF page.err THEN Err(kv)
      ELSE IF page.data.kind = "catalog"
      THEN Ok([kv EXCEPT !.catalog =
                           [t \in Tables |-> LoadedEntry(page.data.tables[t])]])
      ELSE Ok([kv EXCEPT !.catalog = NewCatalog])

\* ---------------------------------------------------------- append-only log
LogEntry(op, table, key, value) ==
  [Operation |-> op, Table |-> table, Key |-> key, Value |-> value]

\* a log whose Append reports success on a closed file
LogAppendSilent(kv, entry) ==
  IF kv.closed THEN Ok(kv) ELSE Ok([kv EXCEPT !.wal = Append(@, entry)])

\* file.Write of the JSON line; fails once the file is closed
LogAppend(kv, entry) ==
  IF kv.closed THEN Err(kv) ELSE Ok([kv EXCEPT !.wal = Append(@, entry)])

\* ------------------------------------------------ the log file, byte level
\* A Go string is any bytes: BadUTF8 is a value that is not valid UTF-8,
\* LongValue one of 64 KiB, the most bufio.Scanner takes for one line.
BadUTF8 == "<ff>"

ReplacementRune == "<fffd>"

LongValue == "<64KiB>"

LogVals == {"a", BadUTF8, LongValue}

LogEntries ==
  {LogEntry("PUT", "users", 1, v) : v \in LogVals}
    \cup {LogEntry("DELETE", "users", 1, "")}

\* json.Marshal writes a string as valid UTF-8
Coerce(str) == IF str = BadUTF8 THEN ReplacementRune ELSE str

\* Serialize: the JSON object of the entry; "value" is left out when empty
SerializeEntry(entry) ==
  [kind |-> "json", operation |-> Coerce(entry.Operation), key |-> entry.Key,
   hasValue |-> (entry.Value # ""), value |-> Coerce(entry.Value),
   table |-> Coerce(entry.Table), long |-> (entry.Value = LongValue)]

\* the first bytes of a record whose write was cut short
Cut(entry) == [kind |-> "cut", of |-> SerializeEntry(entry), long |-> FALSE]

\* text that is no JSON, such as "corrupted data"
Junk(long) == [kind |-> "junk", long |-> long]

\* DeserializeLogEntry: json.Unmarshal takes one whole JSON object and
\* nothing after it; a member that is missing leaves the field empty
DeserializeLogEntry(line) ==
  IF Len(line) = 1 /\ line[1].kind = "json"
  THEN [err |-> FALSE,
        entry |-> LogEntry(line[1].operation, line[1].table, line[1].key,
                           IF line[1].hasValue THEN line[1].value ELSE "")]
  ELSE [err |-> TRUE, entry |-> LogEntry("", "", 0, "")]

\* NewAppendOnlyLog opens the file as it is, for appending
NewAppendOnlyLog(lines, tail) == [lines |-> lines, tail |-> tail, closed |-> FALSE]

\* a log file whose writes succeed after Close
FileWriteAfterClose(f, line, newline) ==
  IF newline
  THEN [f |-> [f EXCEPT !.lines = Append(@, f.tail \o line), !.tail = <<>>],
        err |-> FALSE]
  ELSE [f |-> [f EXCEPT !.tail = @ \o line], err |-> FALSE]

\* file.Write with O_APPEND: the bytes go after whatever the file ends in
FileWrite(f, line, newline) ==
  IF f.closed THEN [f |-> f, err |-> TRUE]
  ELSE IF newline
  THEN [f |-> [f EXCEPT !.lines = Append(@, f.tail \o line), !.tail = <<>>],
        err |-> FALSE]
  ELSE [f |-> [f EXCEPT !.tail = @ \o line], err |-> FALSE]

AppendOnlyLogAppend(f, entry) == FileWrite(f, <<SerializeEntry(entry)>>, TRUE)

WriteString(f, long) == FileWrite(f, <<Junk(long)>>, TRUE)

\* bufio.Scanner gives up with ErrTooLong on a line over its buffer
TooLong(line) == \E i \in 1..Len(line) : line[i].long

\* the loop of Replay: a line that does not parse is skipped
RECURSIVE Scan(_, _)
Scan(tokens, entries) ==
  IF tokens = <<>> THEN [entries |-> entries, err |-> FALSE]
  ELSE IF TooLong(Head(tokens)) THEN [entries |-> entries, err |-> TRUE]
  ELSE IF DeserializeLogEntry(Head(tokens)).err
  THEN Scan(Tail(tokens), entries)
  ELSE Scan(Tail(tokens),
            Append(entries, DeserializeLogEntry(Head(tokens)).entry))

\* Seek to the start, then every line, the unterminated last one included
Replay(f) ==
  IF f.closed THEN [entries |-> <<>>, err |-> TRUE]
  ELSE Scan(f.lines \o (IF f.tail = <<>> THEN <<>> ELSE <<f.tail>>), <<>>)

AppendOnlyLogClose(f) ==
  IF f.closed THEN [f |-> f, err |-> TRUE]
  ELSE [f |-> [f EXCEPT !.closed = TRUE], err |-> FALSE]

\* ------------------------------------------------------------- the KV store
\* NewFileDiskManager + NewBTreeKVStore on the files as they are on disk
NewBTreeKVStore(file, wal) ==
  LET dm == NewFileDiskManager(file)
      kv == [tables |-> [t \in Tables |-> NoTree], catalog |-> NewCatalog,
             file |-> file, nextID |-> dm.nextID, fl |-> dm.fl,
             wal |-> wal, closed |-> FALSE, diskClosed |-> FALSE]
  IN  CatalogLoad(kv).kv

\* Read the table's root page and deserialize it (Put, Get, Delete and Load
\* all do this for a table that is not in memory).
Materialize(kv, table) ==
  LET meta == kv.catalog[table]
      rootPage == ReadPage(kv, meta.RootID)
      bt == Deserialize(kv, rootPage.data)
  IN  IF meta = NoMeta THEN [err |-> TRUE, tree |-> NoTree]
      ELSE IF rootPage.err THEN [err |-> TRUE, tree |-> NoTree]
      ELSE bt

\* a CreateTableName that leaves the check for the name to the catalog
CreateTableNameUnchecked(kv, name, degree) ==
  LET kv1 == [kv EXCEPT !.tables[name] = NewBTree(degree)]
      page == AllocatePage(kv1)
      rootID == page.id
      created == CatalogCreateTable(page.kv, name, rootID, degree)
  IN  IF created.err THEN created ELSE CatalogSave(created.kv)

CreateTableName(kv, name, degree) ==
  IF kv.catalog[name] # NoMeta THEN Err(kv)
  ELSE LET kv1 == [kv EXCEPT !.tables[name] = NewBTree(degree)]
           page == AllocatePage(kv1)
           rootID == page.id
           created == CatalogCreateTable(page.kv, name, rootID, degree)
       IN  IF created.err THEN created ELSE CatalogSave(created.kv)

DropTable(kv, name) ==
  IF kv.tables[name] = NoTree THEN Err(kv)
  ELSE LET dropped == CatalogDropTable(kv, name)
       IN  IF dropped.err THEN dropped
           ELSE Ok([dropped.kv EXCEPT !.tables[name] = NoTree])

\* Flush up to and including the page write; FlushSave is the rest.
FlushWrite(kv, table) ==
  IF kv.tables[table] = NoTree THEN Err(kv)
  ELSE IF kv.catalog[table] = NoMeta THEN Err(kv)
  ELSE WritePage(kv, kv.catalog[table].RootID, Serialize(kv.tables[table]))

FlushSave(kv) == CatalogSave(kv)

Flush(kv, table) ==
  LET w == FlushWrite(kv, table)
  IN  IF w.err THEN w ELSE FlushSave(w.kv)

\* a lookup that makes a tree for a table it does not find
LookupCreates(kv, op, table) ==
  IF kv.tables[table] # NoTree
  THEN [kv |-> kv, err |-> FALSE, bt |-> TRUE]
  ELSE LET m == Materialize(kv, table)
       IN  IF m.err
           THEN [kv |-> [kv EXCEPT !.tables[table] = NewBTree(2)],
                 err |-> FALSE, bt |-> TRUE]
           ELSE [kv |-> [kv EXCEPT !.tables[table] = m.tree], err |-> FALSE,
                 bt |-> (op = "PUT")]

\* Put and Delete up to the WAL append: look the table up, materialize it
\* when it is not in memory.  bt says whether the caller's variable bt holds
\* a tree afterwards: Delete assigns the materialized tree to a new variable
\* of the inner scope, so its outer bt stays nil.
Lookup(kv, op, table) ==
  IF kv.tables[table] # NoTree
  THEN [kv |-> kv, err |-> FALSE, bt |-> TRUE]
  ELSE LET m == Materialize(kv, table)
       IN  IF m.err THEN [kv |-> kv, err |-> TRUE, bt |-> FALSE]
           ELSE [kv |-> [kv EXCEPT !.tables[table] = m.tree], err |-> FALSE,
                 bt |-> (op = "PUT")]

\* a Mutate that works on a tree of its own, not on the one the table map
\* shares between the callers
MutateOwnTree(kv, op, table, key, value, bt) ==
  IF ~bt THEN Abort(kv)
  ELSE LET own == NewBTree(kv.tables[table].degree)
           r == IF op = "PUT" THEN Insert(own, key, value)
                ELSE Delete(own, key)
       IN  [kv |-> [kv EXCEPT !.tables[table] = r.tree], err |-> FALSE,
            panic |-> r.panic]

\* bt.Insert / bt.Delete on the caller's tree
Mutate(kv, op, table, key, value, bt) ==
  IF ~bt THEN Abort(kv)
  ELSE LET r == IF op = "PUT" THEN Insert(kv.tables[table], key, value)
                ELSE Delete(kv.tables[table], key)
       IN  [kv |-> [kv EXCEPT !.tables[table] = r.tree], err |-> FALSE,
            panic |-> r.panic]

\* a Put or Delete that takes the mutation back when its Flush fails
WriteUndoesOnFlushError(kv, op, table, key, value) ==
  LET l == Lookup(kv, op, table)
      a == LogAppend(l.kv, LogEntry(op, table, key, value))
      m == Mutate(a.kv, op, table, key, value, l.bt)
      f == Flush(m.kv, table)
  IN  IF l.err THEN Err(l.kv)
      ELSE IF a.err THEN a
      ELSE IF m.panic THEN m
      ELSE IF f.err THEN [f EXCEPT !.kv.tables = a.kv.tables]
      ELSE f

\* A whole Put or Delete
Write(kv, op, table, key, value) ==
  LET l == Lookup(kv, op, table)
      a == LogAppend(l.kv, LogEntry(op, table, key, value))
      m == Mutate(a.kv, op, table, key, value, l.bt)
  IN  IF l.err THEN Err(l.kv)
      ELSE IF a.err THEN a
      ELSE IF m.panic THEN m
      ELSE Flush(m.kv, table)

Put(kv, table, key, value) == Write(kv, "PUT", table, key, value)

KVDelete(kv, table, key) == Write(kv, "DELETE", table, key, "")

Get(kv, table, key) ==
  LET m == Materialize(kv, table)
      kv1 == IF kv.tables[table] # NoTree THEN kv
             ELSE [kv EXCEPT !.tables[table] = m.tree]
      r == Search(kv1.tables[table], key)
  IN  IF kv.tables[table] = NoTree /\ m.err
      THEN [kv |-> kv, value |-> "", found |-> FALSE, err |-> TRUE, panic |-> FALSE]
      ELSE [kv |-> kv1, value |-> r.value, found |-> r.found, err |-> FALSE,
            panic |-> r.panic]

\* What a caller sees of Get
GetResult(kv, table, key) ==
  LET g == Get(kv, table, key)
  IN  [value |-> g.value, found |-> g.found, err |-> g.err \/ g.panic]

Close(kv) ==
  IF kv.closed THEN Err(kv)
  ELSE IF kv.diskClosed THEN Err([kv EXCEPT !.closed = TRUE])
  ELSE Ok([kv EXCEPT !.closed = TRUE])

\* FileDiskManager.Close, called by the owner of the disk manager: the log
\* stays open
DiskClose(kv) ==
  IF kv.closed \/ kv.diskClosed THEN Err(kv)
  ELSE Ok([kv EXCEPT !.diskClosed = TRUE])

\* Load, first half: the catalog, then every table of it, in the order the
\* map iteration happens to take.
RECURSIVE LoadTables(_, _)
LoadTables(kv, order) ==
  IF order = <<>> THEN Ok(kv)
  ELSE LET m == Materialize(kv, Head(order))
       IN  IF m.err THEN Err(kv)
           ELSE LoadTables([kv EXCEPT !.tables[Head(order)] = m.tree], Tail(order))

\* Load, second half: the log's records applied to the trees in memory
RECURSIVE ReplayEntries(_, _)
ReplayEntries(kv, entries) ==
  IF entries = <<>> THEN Ok(kv)
  ELSE LET entry == Head(entries)
           m == Materialize(kv, entry.Table)
           kv1 == IF kv.tables[entry.Table] # NoTree THEN kv
                  ELSE [kv EXCEPT !.tables[entry.Table] = m.tree]
           r == Mutate(kv1, entry.Operation, entry.Table, entry.Key, entry.Value, TRUE)
       IN  IF kv.tables[entry.Table] = NoTree /\ kv.catalog[entry.Table] = NoMeta
           THEN ReplayEntries(kv, Tail(entries))
           ELSE IF kv.tables[entry.Table] = NoTree /\ m.err THEN Err(kv)
           ELSE IF r.panic THEN r
           ELSE ReplayEntries(r.kv, Tail(entries))

Orders(names) ==
  {o \in UNION {[1..n -> names] : n \in {Cardinality(names)}} :
     \A i, j \in DOMAIN o : i # j => o[i] # o[j]}

Load(kv, order) ==
  LET c == CatalogLoad(kv)
      t == LoadTables(c.kv, order)
  IN  IF c.err THEN c
      ELSE IF t.err THEN t
      ELSE IF t.kv.closed THEN Err(t.kv)
      ELSE ReplayEntries(t.kv, t.kv.wal)

\* ------------------------------------------------- transaction coordinator
operationBackup(table, key, oldValue, existed) ==
  [Table |-> table, Key |-> key, OldValue |-> oldValue, Existed |-> existed]

PutBatch(t, table, key, value) ==
  [t EXCEPT !.operations = Append(@, LogEntry("PUT", table, key, value))]

DeleteBatch(t, table, key) ==
  [t EXCEPT !.operations = Append(@, LogEntry("DELETE", table, key, ""))]

\* rollback: the journal backwards, errors of Put and Delete dropped
RECURSIVE rollback(_, _, _)
rollback(kv, log, i) ==
  IF i < 0 THEN Ok(kv)
  ELSE LET b == At(log, i)
       IN  The({IF r.panic THEN r ELSE rollback(r.kv, log, i - 1) :
                  r \in {IF b.Existed THEN Put(kv, b.Table, b.Key, b.OldValue)
                         ELSE KVDelete(kv, b.Table, b.Key)}})

\* Commit from the i-th queued operation on
RECURSIVE CommitFrom(_, _, _)
CommitFrom(kv, t, i) ==
  IF i >= Len(t.operations)
  THEN [kv |-> kv, tx |-> [operations |-> <<>>, rollbackLog |-> <<>>],
        err |-> FALSE, panic |-> FALSE]
  ELSE LET op == At(t.operations, i)
       IN  The({
             IF g.panic THEN [kv |-> g.kv, tx |-> t, err |-> FALSE, panic |-> TRUE]
             ELSE The({
               IF r.panic
               THEN [kv |-> r.kv, tx |-> t1, err |-> FALSE, panic |-> TRUE]
               ELSE IF r.err
               THEN The({[kv |-> u.kv, tx |-> t1, err |-> ~u.panic, panic |-> u.panic] :
                           u \in {rollback(r.kv, t1.rollbackLog,
                                           Len(t1.rollbackLog) - 1)}})
               ELSE CommitFrom(r.kv, t1, i + 1) :
                 t1 \in {[t EXCEPT !.rollbackLog =
                            Append(@, operationBackup(op.Table, op.Key,
                                                      g.value, g.found))]},
                 r \in {IF op.Operation = "PUT"
                        THEN Put(g.kv, op.Table, op.Key, op.Value)
                        ELSE KVDelete(g.kv, op.Table, op.Key)}}) :
               g \in {Get(kv, op.Table, op.Key)}})

Commit(kv, t) == CommitFrom(kv, t, 0)

\* a Rollback that drops the journal and keeps the queue
RollbackKeepsQueue(t) == [t EXCEPT !.rollbackLog = <<>>]

Rollback(t) == [operations |-> <<>>, rollbackLog |-> <<>>]

\* ======================================================================
\* State
\* ======================================================================
VARIABLES
  tree,         \* the B-Tree under test (nested value)
  panicked,     \* the last B-Tree call aborted with a panic
  lastOp,       \* the last B-Tree call: [op, key, value]
  before,       \* the tree as it was when the last call started
  shadow,       \* key -> value of the most recent Insert, None once deleted
  onlyInserts,  \* no Delete has been called yet
  nOps,         \* number of B-Tree calls made so far
  nDel,         \* number of Deletes among them, where a run bounds them
  kv,           \* the store: tables, catalog, file, nextID, fl, wal, closed
  phase,        \* "first" run, "down", "reopened", "loaded", "later"
  pc,           \* per thread: where its Put or Delete stands
  ret,          \* per thread: how its last Put or Delete ended
  pre,          \* what Get returned for every table and key at the crash
  crashedAt,    \* position of the interrupted Put or Delete at the crash
  allOK,        \* first run only: every call before the crash was a
                \* CreateTable, Put or Delete that returned success
  loadResult,   \* how Load after the reopen ended: none, ok, err, panic
  crashes,      \* number of crashes so far
  tx,           \* the transaction: [operations, rollbackLog]
  commit,       \* the last Commit: its result, its queue, Get of every key before
  last,         \* the last whole call on the store or the disk manager
  logFile,      \* a log file on its own: [lines, tail, closed]
  acked,        \* the records whose Append on logFile returned success, in order
  replayed,     \* what the last Replay of logFile returned: [entries, err]
  workers,      \* per goroutine of the stress run: where its loop stands
  flusher,      \* the goroutine of StartPeriodicFlush: [at, todo]
  locks,        \* per goroutine: the lock calls its operation has still to
                \* make, and the locks it holds, oldest first
  session,      \* the SQL session: [Transaction], nil or the transaction tx
  reply,        \* the last statement of the session and how it ended
  epoch         \* [stale, opened, loaded]: how many records of the log were
                \* written before the last CreateTable that returned success,
                \* whether the store was opened again on its files, and
                \* whether Load has returned success since

btVars == <<tree, panicked, lastOp, before, shadow, onlyInserts, nOps, nDel>>

kvVars == <<kv, phase, pc, ret, pre, crashedAt, allOK, loadResult, crashes>>

txVars == <<tx, commit>>

catVars == <<last>>

logVars == <<logFile, acked, replayed>>

simVars == <<workers, flusher, locks, session, reply, epoch>>

vars == <<btVars, kvVars, txVars, catVars, logVars, simVars>>

None == "none"

\* Parts of the state a specification does not use stay as they start.
BTIdle ==
  /\ tree = NewBTree(2)
  /\ panicked = FALSE
  /\ lastOp = [op |-> "New", key |-> 0, value |-> None]
  /\ before = tree
  /\ shadow = [k \in Keys |-> None]
  /\ onlyInserts = TRUE
  /\ nOps = 0
  /\ nDel = 0

Idle == [at |-> "idle", op |-> None, table |-> None, key |-> 0, value |-> "",
         bt |-> FALSE, pos |-> 0]

NoPre == [t \in Tables |-> [k \in KVKeys |-> [value |-> "", found |-> FALSE, err |-> TRUE]]]

NoTx == [operations |-> <<>>, rollbackLog |-> <<>>]

NoCommit == [result |-> "none", operations |-> <<>>, snap |-> NoPre, count |-> 0]

\* the record of the last Commit is dropped by the next call
Forget(c) == [NoCommit EXCEPT !.count = c.count]

TxIdle ==
  /\ tx = NoTx
  /\ commit = NoCommit

NoCall == [op |-> "none", table |-> None, err |-> FALSE, panic |-> FALSE,
           same |-> TRUE, reg |-> FALSE, mem |-> FALSE, found |-> FALSE,
           page |-> -1, names |-> {}]

CatIdle == last = NoCall

NoReplay == [done |-> FALSE, entries |-> <<>>, err |-> FALSE, stable |-> TRUE]

LogIdle ==
  /\ logFile = NewAppendOnlyLog(<<>>, <<>>)
  /\ acked = <<>>
  /\ replayed = NoReplay

NoWorker == [mode |-> "none", at |-> "new", j |-> 0, bt |-> FALSE,
             rollbackLog |-> <<>>, ok |-> TRUE, got |-> TRUE, own |-> NoTree]

\* &Session{ID: id}: no transaction
NewSession == [Transaction |-> "nil"]

NoReply == [kind |-> "none", err |-> FALSE, active |-> FALSE, queue |-> <<>>,
            same |-> TRUE, entry |-> None]

\* a goroutine between two operations
NoLocks == [op |-> "none", prog |-> <<>>, held |-> <<>>, pending |-> FALSE]

\* no StartPeriodicFlush yet
NoFlusher == [at |-> "off", todo |-> {}]

NoEpoch == [stale |-> 0, opened |-> FALSE, loaded |-> FALSE]

SimIdle ==
  /\ workers = [th \in Threads |-> NoWorker]
  /\ flusher = NoFlusher
  /\ locks = [th \in Threads |-> NoLocks]
  /\ session = NewSession
  /\ reply = NoReply
  /\ epoch = NoEpoch

KVFresh(store) ==
  /\ kv = store
  /\ phase = "first"
  /\ pc = [th \in Threads |-> Idle]
  /\ ret = [th \in Threads |-> "none"]
  /\ pre = NoPre
  /\ crashedAt = "idle"
  /\ allOK = TRUE
  /\ loadResult = "none"
  /\ crashes = 0

KVIdle == KVFresh(NewBTreeKVStore(<<>>, <<>>))

\* ------------------------------------------------ B-Tree engine on its own
BTInit ==
  /\ KVIdle
  /\ TxIdle
  /\ CatIdle
  /\ LogIdle
  /\ SimIdle
  /\ \E d \in Degrees : tree = NewBTree(d)
  /\ panicked = FALSE
  /\ lastOp = [op |-> "New", key |-> 0, value |-> None]
  /\ before = tree
  /\ shadow = [k \in Keys |-> None]
  /\ onlyInserts = TRUE
  /\ nOps = 0
  /\ nDel = 0

BTInsert(key, value, limit) ==
  /\ ~panicked
  /\ nOps < limit
  /\ nOps' = nOps + 1
  /\ \E r \in {Insert(tree, key, value)} :
         /\ tree' = r.tree
         /\ panicked' = r.panic
  /\ lastOp' = [op |-> "Insert", key |-> key, value |-> value]
  /\ before' = tree
  /\ shadow' = [shadow EXCEPT ![key] = value]
  /\ UNCHANGED <<onlyInserts, nDel, kvVars, txVars, catVars, logVars, simVars>>

BTDelete(key, limit) ==
  /\ ~panicked
  /\ nOps < limit
  /\ nOps' = nOps + 1
  /\ \E r \in {Delete(tree, key)} :
         /\ tree' = r.tree
         /\ panicked' = r.panic
  /\ lastOp' = [op |-> "Delete", key |-> key, value |-> None]
  /\ before' = tree
  /\ shadow' = [shadow EXCEPT ![key] = None]
  /\ onlyInserts' = FALSE
  /\ UNCHANGED <<nDel, kvVars, txVars, catVars, logVars, simVars>>

BTNext ==
  \/ \E key \in Keys, value \in Vals : BTInsert(key, value, MaxOps)
  \/ \E key \in Keys : BTDelete(key, MaxOps)

SpecBT == BTInit /\ [][BTNext]_vars

\* The same engine when no key is ever inserted while the tree holds it
RECURSIVE CountKey(_, _)
CountKey(n, key) ==
  LET RECURSIVE Sum(_)
      Sum(i) == IF i > Len(n.children) THEN 0
                ELSE CountKey(n.children[i], key) + Sum(i + 1)
  IN  Cardinality({i \in 1..Len(n.keys) : n.keys[i] = key}) + Sum(1)

KeySet(n) == {k \in Keys : CountKey(n, k) > 0}

BTInsertAbsent(key) ==
  /\ CountKey(tree.root, key) = 0
  /\ BTInsert(key, "a", MaxDistinctOps)

BTDistinctNext ==
  \/ \E key \in Keys : BTInsertAbsent(key)
  \/ \E key \in Keys : BTDelete(key, MaxDistinctOps)

SpecBTDistinct == BTInit /\ [][BTDistinctNext]_vars

\* The same engine on trees of three levels: keys go in ascending, any key
\* may be deleted in between
BTDeepInsert ==
  /\ ~panicked
  /\ nOps - nDel < MaxDeepKey
  /\ \E key \in {nOps - nDel + 1} :
       /\ \E r \in {Insert(tree, key, "a")} :
            /\ tree' = r.tree
            /\ panicked' = r.panic
       /\ lastOp' = [op |-> "Insert", key |-> key, value |-> "a"]
  /\ nOps' = nOps + 1
  /\ before' = tree
  /\ UNCHANGED <<shadow, onlyInserts, nDel, kvVars, txVars, catVars, logVars, simVars>>

BTDeepDelete(key) ==
  /\ ~panicked
  /\ nDel < MaxDeepDeletes
  /\ \E r \in {Delete(tree, key)} :
       /\ tree' = r.tree
       /\ panicked' = r.panic
  /\ lastOp' = [op |-> "Delete", key |-> key, value |-> None]
  /\ nOps' = nOps + 1
  /\ nDel' = nDel + 1
  /\ before' = tree
  /\ UNCHANGED <<shadow, onlyInserts, kvVars, txVars, catVars, logVars, simVars>>

BTDeepNext ==
  \/ BTDeepInsert
  \/ \E key \in 1..MaxDeepKey : BTDeepDelete(key)

SpecBTDeep == BTInit /\ [][BTDeepNext]_vars

\* ------------------------------------------------------ the store, stepwise
Running == phase \in {"first", "reopened", "loaded", "later"}

Quiet == \A th \in Threads : pc[th].at = "idle"

\* a call other than Load moves a reopened or loaded store on
After(ph) == IF ph = "first" THEN "first" ELSE "later"

Snapshot(store) ==
  [t \in Tables |-> [k \in KVKeys |-> GetResult(store, t, k)]]

\* The process dies: memory is gone, the two files stay as they are.
Persisted(store) ==
  [tables |-> [t \in Tables |-> NoTree], catalog |-> NewCatalog,
   file |-> store.file, nextID |-> 0, fl |-> <<>>, wal |-> store.wal,
   closed |-> TRUE, diskClosed |-> FALSE]

\* The record of the crash is kept until the recovered store is used again.
Record(err) ==
  IF After(phase) = "later"
  THEN /\ pre' = NoPre
       /\ crashedAt' = "idle"
       /\ allOK' = FALSE
       /\ loadResult' = "none"
  ELSE /\ allOK' = (allOK /\ ~err)
       /\ UNCHANGED <<pre, crashedAt, loadResult>>

Die(at) ==
  /\ phase' = "down"
  /\ kv' = Persisted(kv)
  /\ pc' = [th \in Threads |-> Idle]
  /\ ret' = [th \in Threads |-> "none"]
  /\ crashedAt' = at

Return(th, store, err) ==
  /\ kv' = store
  /\ pc' = [pc EXCEPT ![th] = Idle]
  /\ ret' = [ret EXCEPT ![th] = IF err THEN "err" ELSE "ok"]
  /\ phase' = After(phase)
  /\ Record(err)
  /\ UNCHANGED crashes

Advance(th, store, at) ==
  /\ kv' = store
  /\ pc' = [pc EXCEPT ![th].at = at]
  /\ phase' = After(phase)
  /\ Record(FALSE)
  /\ UNCHANGED <<ret, crashes>>

KVCreateTable(name, degree) ==
  /\ Running /\ Quiet
  /\ \E r \in {CreateTableName(kv, name, degree)} :
         /\ kv' = r.kv
         /\ Record(r.err)
  /\ phase' = After(phase)
  /\ UNCHANGED <<pc, ret, crashes, btVars, txVars, catVars, logVars, simVars>>

\* Put / Delete, lines up to the log append
Call(th, op, table, key, value) ==
  /\ Running /\ pc[th].at = "idle"
  /\ Len(kv.wal) < MaxLog
  /\ \E l \in {Lookup(kv, op, table)} :
         IF l.err
         THEN Return(th, l.kv, TRUE)
         ELSE /\ kv' = l.kv
              /\ pc' = [pc EXCEPT ![th] =
                          [at |-> "ready", op |-> op, table |-> table, key |-> key,
                           value |-> value, bt |-> l.bt, pos |-> 0]]
              /\ ret' = [ret EXCEPT ![th] = "none"]
              /\ phase' = After(phase)
              /\ Record(FALSE)
              /\ UNCHANGED crashes
  /\ UNCHANGED <<btVars, txVars, catVars, logVars, simVars>>

\* kv.log.Append(entry)
StepAppend(th) ==
  /\ Running /\ pc[th].at = "ready"
  /\ LET c == pc[th]
         a == LogAppend(kv, LogEntry(c.op, c.table, c.key, c.value))
     IN  IF a.err THEN Return(th, a.kv, TRUE)
         ELSE /\ kv' = a.kv
              /\ pc' = [pc EXCEPT ![th].at = "appended", ![th].pos = Len(a.kv.wal)]
              /\ phase' = After(phase)
              /\ Record(FALSE)
              /\ UNCHANGED <<ret, crashes>>
  /\ UNCHANGED <<btVars, txVars, catVars, logVars, simVars>>

\* bt.Insert(key, value) / bt.Delete(key)
StepMutate(th) ==
  /\ Running /\ pc[th].at = "appended"
  /\ \E c \in {pc[th]} :
       \E m \in {Mutate(kv, c.op, c.table, c.key, c.value, c.bt)} :
         IF m.panic
         THEN /\ Die("appended")
              /\ pre' = Snapshot(kv)
              /\ loadResult' = "none"
              /\ UNCHANGED <<allOK, crashes>>
         ELSE Advance(th, m.kv, "mutated")
  /\ UNCHANGED <<btVars, txVars, catVars, logVars, simVars>>

\* kv.Flush(table), up to the page write
StepFlushWrite(th) ==
  /\ Running /\ pc[th].at = "mutated"
  /\ \E w \in {FlushWrite(kv, pc[th].table)} :
         IF w.err THEN Return(th, w.kv, TRUE)
         ELSE Advance(th, w.kv, "written")
  /\ UNCHANGED <<btVars, txVars, catVars, logVars, simVars>>

\* kv.Flush(table), the catalog save
StepFlushSave(th) ==
  /\ Running /\ pc[th].at = "written"
  /\ \E f \in {FlushSave(kv)} :
         Return(th, f.kv, f.err)
  /\ UNCHANGED <<btVars, txVars, catVars, logVars, simVars>>

KVGet(table, key) ==
  /\ Running /\ Quiet
  /\ \E g \in {Get(kv, table, key)} :
         IF g.panic
         THEN /\ Die("idle")
              /\ pre' = Snapshot(kv)
              /\ loadResult' = "none"
              /\ UNCHANGED <<allOK, crashes>>
         ELSE /\ kv' = g.kv
              /\ phase' = After(phase)
              /\ Record(FALSE)
              /\ UNCHANGED <<pc, ret, crashes>>
  /\ UNCHANGED <<btVars, txVars, catVars, logVars, simVars>>

KVClose ==
  /\ Running /\ Quiet
  /\ kv' = Close(kv).kv
  /\ phase' = After(phase)
  /\ Record(TRUE)
  /\ UNCHANGED <<pc, ret, crashes, btVars, txVars, catVars, logVars, simVars>>

\* The process is killed, wherever its Put or Delete stands.
Crash ==
  /\ Running
  /\ crashes < MaxCrashes
  /\ crashes' = crashes + 1
  /\ Die(pc[1].at)
  /\ pre' = Snapshot(kv)
  /\ loadResult' = "none"
  /\ UNCHANGED <<allOK, btVars, txVars, catVars, logVars, simVars>>

\* NewFileDiskManager and NewBTreeKVStore on the same two files
Reopen ==
  /\ phase = "down"
  /\ kv' = NewBTreeKVStore(kv.file, kv.wal)
  /\ phase' = "reopened"
  /\ UNCHANGED <<pc, ret, pre, crashedAt, allOK, loadResult, crashes, btVars, txVars, catVars, logVars, simVars>>

Registered(store) == {t \in Tables : store.catalog[t] # NoMeta}

KVLoad ==
  /\ Running /\ Quiet
  /\ \E c \in {CatalogLoad(kv)} :
         \E order \in Orders(Registered(c.kv)) :
           \E r \in {Load(kv, order)}, first \in {phase = "reopened"} :
               IF r.panic
               THEN /\ Die(crashedAt)
                    /\ loadResult' = IF first THEN "panic" ELSE "none"
                    /\ pre' = IF first THEN pre ELSE Snapshot(kv)
                    /\ UNCHANGED <<allOK, crashes>>
               ELSE /\ kv' = r.kv
                    /\ IF first
                       THEN /\ phase' = "loaded"
                            /\ loadResult' = IF r.err THEN "err" ELSE "ok"
                            /\ UNCHANGED <<pre, crashedAt, allOK>>
                       ELSE /\ phase' = After(phase)
                            /\ Record(r.err)
                    /\ UNCHANGED <<pc, ret, crashes>>
  /\ UNCHANGED <<btVars, txVars, catVars, logVars, simVars>>

KVInit ==
  /\ BTIdle
  /\ KVIdle
  /\ TxIdle
  /\ CatIdle
  /\ LogIdle
  /\ SimIdle

KVNext ==
  \/ \E name \in KVTables, degree \in KVDegrees : KVCreateTable(name, degree)
  \/ \E table \in KVTables, key \in KVKeys, value \in KVVals :
       Call(1, "PUT", table, key, value)
  \/ \E table \in KVTables, key \in KVKeys : Call(1, "DELETE", table, key, "")
  \/ StepAppend(1)
  \/ StepMutate(1)
  \/ StepFlushWrite(1)
  \/ StepFlushSave(1)
  \/ \E table \in KVTables, key \in KVKeys : KVGet(table, key)
  \/ KVClose
  \/ Crash
  \/ Reopen
  \/ KVLoad

SpecKV == KVInit /\ [][KVNext]_vars

\* --------------------------------------------- two goroutines on one store
InFlight == Cardinality({th \in Threads : pc[th].at \in {"ready"}})

ConcCall(th, op, table, key, value) ==
  /\ Len(kv.wal) + InFlight < MaxConcLog
  /\ Call(th, op, table, key, value)

ConcNext ==
  \/ \E name \in KVTables, degree \in KVDegrees : KVCreateTable(name, degree)
  \/ \E th \in Threads, table \in KVTables, key \in KVKeys, value \in Vals :
       ConcCall(th, "PUT", table, key, value)
  \/ \E th \in Threads, table \in KVTables, key \in KVKeys :
       ConcCall(th, "DELETE", table, key, "")
  \/ \E th \in Threads : StepAppend(th)
  \/ \E th \in Threads : StepMutate(th)
  \/ \E th \in Threads : StepFlushWrite(th)
  \/ \E th \in Threads : StepFlushSave(th)
  \/ KVClose

SpecConc == KVInit /\ [][ConcNext]_vars

\* ------------------------------------------- transactions, single-threaded
TxFrame == UNCHANGED <<phase, pc, ret, pre, crashedAt, allOK, loadResult,
                       crashes, btVars, catVars, logVars, simVars>>

TxRunning == Running /\ commit.count < MaxCommits

TxCreateTable(name, degree) ==
  /\ TxRunning
  /\ kv' = CreateTableName(kv, name, degree).kv
  /\ commit' = Forget(commit)
  /\ UNCHANGED tx
  /\ TxFrame

\* a Put made directly on the store, to fill the table
TxDirect(table, key, value) ==
  /\ TxRunning
  /\ Len(kv.wal) < MaxTxLog
  /\ \E r \in {Put(kv, table, key, value)} :
         /\ kv' = IF r.panic THEN Persisted(r.kv) ELSE r.kv
         /\ phase' = IF r.panic THEN "down" ELSE phase
  /\ commit' = Forget(commit)
  /\ UNCHANGED <<tx, pc, ret, pre, crashedAt, allOK, loadResult, crashes, btVars, catVars, logVars, simVars>>

TxBegin ==
  /\ TxRunning
  /\ tx' = NoTx
  /\ commit' = Forget(commit)
  /\ UNCHANGED kv
  /\ TxFrame

TxPutBatch(table, key, value) ==
  /\ TxRunning
  /\ Len(tx.operations) < MaxTxOps
  /\ tx' = PutBatch(tx, table, key, value)
  /\ commit' = Forget(commit)
  /\ UNCHANGED kv
  /\ TxFrame

TxDeleteBatch(table, key) ==
  /\ TxRunning
  /\ Len(tx.operations) < MaxTxOps
  /\ tx' = DeleteBatch(tx, table, key)
  /\ commit' = Forget(commit)
  /\ UNCHANGED kv
  /\ TxFrame

TxCommit ==
  /\ TxRunning
  /\ Len(tx.rollbackLog) < MaxTxOps
  /\ \E r \in {Commit(kv, tx)} :
         /\ kv' = IF r.panic THEN Persisted(r.kv) ELSE r.kv
         /\ phase' = IF r.panic THEN "down" ELSE phase
         /\ tx' = IF r.panic THEN NoTx ELSE r.tx
         /\ commit' = IF r.panic THEN [Forget(commit) EXCEPT !.count = @ + 1]
                      ELSE [result |-> IF r.err THEN "err" ELSE "ok",
                            operations |-> tx.operations,
                            snap |-> Snapshot(kv),
                            count |-> commit.count + 1]
  /\ UNCHANGED <<pc, ret, pre, crashedAt, allOK, loadResult, crashes, btVars, catVars, logVars, simVars>>

TxRollback ==
  /\ TxRunning
  /\ tx' = Rollback(tx)
  /\ commit' = [Forget(commit) EXCEPT !.result = "rolledback",
                                      !.operations = tx.operations]
  /\ UNCHANGED kv
  /\ TxFrame

\* keys queued per table: a table that is never created rejects every key alike
TxKeys(table) == IF table \in KVTables THEN KVKeys ELSE {1}

TxNext ==
  \/ \E name \in KVTables : TxCreateTable(name, MaxKVDegree)
  \/ \E table \in KVTables, key \in KVKeys, value \in KVVals :
       TxDirect(table, key, value)
  \/ TxBegin
  \/ \E table \in Tables, value \in Vals : \E key \in TxKeys(table) :
       TxPutBatch(table, key, value)
  \/ \E table \in Tables : \E key \in TxKeys(table) : TxDeleteBatch(table, key)
  \/ TxCommit
  \/ TxRollback

SpecTx == KVInit /\ [][TxNext]_vars

\* ------------------------------------- whole calls on the store, one by one
CatFrame == UNCHANGED <<phase, pc, ret, pre, crashedAt, allOK, loadResult,
                        crashes, btVars, txVars, logVars, simVars>>

\* the call op on table ended as r; found and page are what it handed back
Done(op, table, r, found, page) ==
  /\ kv' = r.kv
  /\ last' = [op |-> op, table |-> table, err |-> r.err, panic |-> r.panic,
              same |-> (r.kv = kv),
              reg |-> (table \in Tables /\ kv.catalog[table] # NoMeta),
              mem |-> (table \in Tables /\ kv.tables[table] # NoTree),
              found |-> found, page |-> page, names |-> Registered(kv)]
  /\ CatFrame

CatCreateTable(name, degree) ==
  /\ kv.nextID < MaxPages
  /\ \E r \in {CreateTableName(kv, name, degree)} :
       Done("CreateTable", name, r, FALSE,
            IF kv.catalog[name] # NoMeta THEN -1 ELSE AllocatePage(kv).id)

CatDropTable(name) ==
  \E r \in {DropTable(kv, name)} : Done("DropTable", name, r, FALSE, -1)

CatPut(table, key, value) ==
  /\ Len(kv.wal) < MaxCatLog
  /\ \E r \in {Put(kv, table, key, value)} : Done("Put", table, r, FALSE, -1)

CatDelete(table, key) ==
  /\ Len(kv.wal) < MaxCatLog
  /\ \E r \in {KVDelete(kv, table, key)} : Done("Delete", table, r, FALSE, -1)

CatGet(table, key) ==
  \E g \in {Get(kv, table, key)} :
    Done("Get", table, [kv |-> g.kv, err |-> g.err, panic |-> g.panic],
         g.found, -1)

CatClose == \E r \in {Close(kv)} : Done("Close", None, r, FALSE, -1)

CatLoad ==
  \E c \in {CatalogLoad(kv)} :
    \E order \in Orders(Registered(c.kv)) :
      \E r \in {Load(kv, order)} : Done("Load", None, r, FALSE, -1)

\* the process ends after Close and a new one opens the same two files
CatReopen ==
  /\ kv.closed
  /\ Done("Reopen", None, Ok(NewBTreeKVStore(kv.file, kv.wal)), FALSE, -1)

CatAllocatePage ==
  /\ kv.nextID < MaxPages
  /\ \E a \in {AllocatePage(kv)} : Done("AllocatePage", None, Ok(a.kv), FALSE, a.id)

CatFreePage(id) ==
  /\ Len(kv.fl) < MaxFree
  /\ Done("FreePage", None, Ok(FreePage(kv, id)), FALSE, -1)

CatNext ==
  \/ \E name \in KVTables, degree \in 0..MaxKVDegree : CatCreateTable(name, degree)
  \/ \E name \in Tables : CatDropTable(name)
  \/ \E table \in Tables, key \in CatKeys, value \in KVVals :
       CatPut(table, key, value)
  \/ \E table \in Tables, key \in CatKeys : CatDelete(table, key)
  \/ \E table \in Tables, key \in CatKeys : CatGet(table, key)
  \/ CatClose
  \/ CatLoad

SpecCat == KVInit /\ [][CatNext]_vars

\* the same with the disk manager's own calls between the store's
DiskNext ==
  \/ CatNext
  \/ CatAllocatePage
  \/ \E id \in 0..MaxPages : CatFreePage(id)

SpecDisk == KVInit /\ [][DiskNext]_vars

\* the store's calls over the life of its files: closed, opened again
LifeNext ==
  \/ CatNext
  \/ CatReopen

SpecLife == KVInit /\ [][LifeNext]_vars

\* ----------------------------------------------------- the log on its own
LogFrame == UNCHANGED <<kv, phase, pc, ret, pre, crashedAt, allOK, loadResult,
                        btVars, txVars, simVars>>

LogCall(op, r) ==
  /\ logFile' = r.f
  /\ last' = [NoCall EXCEPT !.op = op, !.err = r.err, !.same = (r.f = logFile)]
  /\ replayed' = NoReplay
  /\ UNCHANGED crashes
  /\ LogFrame

LogAppendEntry(entry) ==
  /\ Len(logFile.lines) < MaxLogLines
  /\ \E r \in {AppendOnlyLogAppend(logFile, entry)} :
       /\ LogCall("Append", r)
       /\ acked' = IF r.err THEN acked ELSE Append(acked, entry)

LogWriteString(long) ==
  /\ Len(logFile.lines) < MaxLogLines
  /\ LogCall("WriteString", WriteString(logFile, long))
  /\ UNCHANGED acked

LogReplay ==
  /\ \E r \in {Replay(logFile)} :
       replayed' = [done |-> TRUE, entries |-> r.entries, err |-> r.err,
                    stable |-> (replayed.done =>
                                  /\ replayed.entries = r.entries
                                  /\ replayed.err = r.err)]
  /\ last' = [NoCall EXCEPT !.op = "Replay"]
  /\ UNCHANGED <<logFile, acked, crashes>>
  /\ LogFrame

LogClose ==
  /\ LogCall("Close", AppendOnlyLogClose(logFile))
  /\ UNCHANGED acked

\* The process dies, idle or part-way through the write of an Append:
\* before its first byte, after some of them, or with only the newline
\* missing.  The next process opens the file as it is.
TornRecord == LogEntry("PUT", "users", 1, "a")

LogCrash(how) ==
  /\ crashes < MaxCrashes
  /\ Len(logFile.lines) < MaxLogLines
  /\ \E torn \in {IF how = "cut" THEN <<Cut(TornRecord)>>
                  ELSE IF how = "whole" THEN <<SerializeEntry(TornRecord)>>
                  ELSE <<>>} :
       logFile' = NewAppendOnlyLog(logFile.lines, logFile.tail \o torn)
  /\ crashes' = crashes + 1
  /\ last' = [NoCall EXCEPT !.op = "Crash"]
  /\ replayed' = NoReplay
  /\ UNCHANGED acked
  /\ LogFrame

LogNext ==
  \/ \E entry \in LogEntries : LogAppendEntry(entry)
  \/ \E long \in BOOLEAN : LogWriteString(long)
  \/ LogReplay
  \/ LogClose
  \/ \E how \in {"idle", "cut", "whole"} : LogCrash(how)

SpecLog == KVInit /\ [][LogNext]_vars

\* ------------------------------------------------------ store observations
Maximum(S) == CHOOSE x \in S : \A y \in S : y <= x

\* What a map would hold for (table, key) after the records of log, in order
LastEffect(log, table, key) ==
  LET idx == {i \in 1..Len(log) : log[i].Table = table /\ log[i].Key = key}
  IN  IF idx = {} \/ log[Maximum(idx)].Operation = "DELETE"
      THEN [value |-> "", found |-> FALSE, err |-> FALSE]
      ELSE [value |-> log[Maximum(idx)].Value, found |-> TRUE, err |-> FALSE]

\* Get of every table and key on a store whose registered tables hold what
\* the first n records of the log make of empty tables
ApplyPrefix(store, n) ==
  [t \in Tables |-> [k \in KVKeys |->
     IF t \in Registered(store)
     THEN LastEffect(SubSeq(store.wal, 1, n), t, k)
     ELSE [value |-> "", found |-> FALSE, err |-> TRUE]]]

Named(ops) == {<<ops[i].Table, ops[i].Key>> : i \in 1..Len(ops)}

\* ------------------------------------------------------------------ claims
\* C1: recovery equivalence.  After a run of CreateTable, Put and Delete calls
\* that all returned success and left at least one key stored, a crash
\* between calls, a reopen of the two files and Load, Load succeeds and Get
\* returns for every table and key what it returned before the crash.
C1_RecoveryEquivalence ==
  (crashedAt = "idle" /\ allOK /\ loadResult # "none"
     /\ \E t \in Tables, k \in KVKeys : pre[t][k].found) =>
     /\ loadResult = "ok"
     /\ Snapshot(kv) = pre

\* C2: a crash inside a Put or Delete (before the append, after it, after the
\* mutation, after the page write) followed by reopen and Load leaves every
\* table in the state some prefix of the log's records produces.
C2_CrashRecoversToLogPrefix ==
  (crashedAt \in {"ready", "appended", "mutated", "written"}
     /\ loadResult # "none") =>
     /\ loadResult = "ok"
     /\ \E n \in 0..Len(kv.wal) : Snapshot(kv) = ApplyPrefix(kv, n)

\* C3: transaction atomicity on failure.  When Commit returns an error, Get
\* returns for every (table, key) named in the queue what it returned just
\* before Commit was called.
C3_CommitFailureRestores ==
  commit.result = "err" =>
     \A e \in Named(commit.operations) :
        Snapshot(kv)[e[1]][e[2]] = commit.snap[e[1]][e[2]]

\* C4: transaction success.  When Commit returns success, Get returns for
\* every (table, key) named in the queue the effect of the last queued
\* operation on it, and the queue and the rollback journal are both empty.
C4_CommitSuccessApplies ==
  commit.result = "ok" =>
     /\ tx.operations = <<>>
     /\ tx.rollbackLog = <<>>
     /\ \A e \in Named(commit.operations) :
          Snapshot(kv)[e[1]][e[2]] = LastEffect(commit.operations, e[1], e[2])

\* C5: map semantics of Insert.  After any sequence of Insert calls, Search(k)
\* returns the value of the most recent Insert of k, and the tree holds k once.
C5_InsertMapSemantics ==
  (onlyInserts /\ ~panicked) =>
     \A k \in Keys : shadow[k] # None =>
        /\ Search(tree, k) = [value |-> shadow[k], found |-> TRUE, panic |-> FALSE]
        /\ CountKey(tree.root, k) = 1

\* C6: after Delete(k) has returned, Search(k) finds nothing.
C6_DeletedKeyNotFound ==
  (lastOp.op = "Delete" /\ ~panicked) => ~Search(tree, lastOp.key).found

\* C7: Delete(k) leaves Search(j) as it was for every key j other than k.
C7_DeleteFrame ==
  (lastOp.op = "Delete" /\ ~panicked) =>
     \A j \in Keys \ {lastOp.key} : Search(tree, j) = Search(before, j)

\* C8: Insert and Delete never abort, and Delete of a key the tree does not
\* hold leaves the key set as it was.
C8_StructuralOpsInfallible ==
  /\ ~panicked
  /\ (lastOp.op = "Delete" /\ CountKey(before.root, lastOp.key) = 0) =>
        KeySet(tree.root) = KeySet(before.root)

\* C9: the log record precedes the mutation.  A step that changes a tree held
\* in memory is the mutation step of a Put or Delete whose record is already in
\* the log, and a Put or Delete whose append fails returns the error with
\* every tree as it was.
C9_AppendBeforeMutate ==
  [][\A th \in Threads :
       /\ (pc[th].at = "appended" /\ pc'[th].at = "mutated") =>
             /\ pc[th].pos \in 1..Len(kv.wal)
             /\ kv.wal[pc[th].pos] =
                  LogEntry(pc[th].op, pc[th].table, pc[th].key, pc[th].value)
             /\ kv'.wal = kv.wal
       /\ (\E t \in Tables : kv.tables[t] # NoTree /\ kv'.tables[t] # NoTree
                             /\ kv'.tables[t] # kv.tables[t]) =>
             \E mu \in Threads : pc[mu].at = "appended" /\ pc'[mu].at = "mutated"
       /\ (pc[th].at = "ready" /\ pc'[th].at = "idle" /\ phase' # "down") =>
             /\ ret'[th] = "err"
             /\ kv'.tables = kv.tables
             /\ kv'.wal = kv.wal]_vars

\* a Put has appended its record and mutated the tree, and a later Put on the
\* closed store has failed at the append
C9_Witness ==
  /\ kv.closed
  /\ ret[1] = "err"
  /\ Len(kv.wal) > 0
  /\ \E k \in KVKeys : GetResult(kv, "users", k).found

\* C10: once two Put or Delete calls on one key have both returned, Get
\* returns what the last record of the log for that key says.
C10_LogOrderIsApplyOrder ==
  (Quiet /\ phase # "down" /\ ~kv.closed) =>
     \A t \in Registered(kv), k \in KVKeys :
        kv.tables[t] # NoTree => GetResult(kv, t, k) = LastEffect(kv.wal, t, k)

\* C11: page 0 is the catalog's: no AllocatePage, called directly or by
\* CreateTable, on a new file or after FreePage calls, hands out page 0, and
\* no table registered in the catalog has root id 0.
C11_PageZeroReserved ==
  /\ last.op \in {"AllocatePage", "CreateTable"} => last.page # 0
  /\ \A t \in Tables : kv.catalog[t] # NoMeta => kv.catalog[t].RootID # 0

\* every line of the file is one record, written whole by an Append
AppendOnly(f) ==
  /\ f.tail = <<>>
  /\ \A i \in 1..Len(f.lines) : Len(f.lines[i]) = 1 /\ f.lines[i][1].kind = "json"

\* C12: on an open log written only through Append, Replay returns without
\* error exactly the records whose Append returned success, in that order and
\* field for field, and a second Replay returns the same.
C12_ReplayReturnsAppended ==
  (replayed.done /\ ~logFile.closed /\ AppendOnly(logFile)) =>
    /\ ~replayed.err
    /\ replayed.entries = acked
    /\ replayed.stable

\* a is b with some of its elements left out
RECURSIVE IsSubSeq(_, _)
IsSubSeq(a, b) ==
  IF a = <<>> THEN TRUE
  ELSE IF b = <<>> THEN FALSE
  ELSE IF Head(a) = Head(b) THEN IsSubSeq(Tail(a), Tail(b))
  ELSE IsSubSeq(a, Tail(b))

\* values that json.Marshal writes as they are
Plain(entries) ==
  \A i \in 1..Len(entries) : entries[i].Value \notin {BadUTF8, LongValue}

\* no line of the file is over the scanner's buffer
Scannable(f) ==
  /\ ~TooLong(f.tail)
  /\ \A i \in 1..Len(f.lines) : ~TooLong(f.lines[i])

\* C13: no record whose Append returned success is lost: Replay returns all
\* of them, in order, also when the file ended in a torn record at the time
\* of an Append (here for records and lines that C12's defects do not touch).
C13_NoAppendedRecordLost ==
  (replayed.done /\ ~logFile.closed /\ Plain(acked) /\ Scannable(logFile)) =>
    /\ ~replayed.err
    /\ IsSubSeq(acked, replayed.entries)

\* what the scanner hands to the parser: the lines, then an unterminated rest
Tokens(f) == f.lines \o (IF f.tail = <<>> THEN <<>> ELSE <<f.tail>>)

Parses(line) == ~DeserializeLogEntry(line).err

\* the well-formed records of the file, in file order
WellFormed(f) ==
  LET good == SelectSeq(Tokens(f), Parses)
  IN  [i \in 1..Len(good) |-> DeserializeLogEntry(good[i]).entry]

\* C14: Replay skips a line that does not parse, wherever it is, without an
\* error, and returns every well-formed record before and after it, in
\* order (here for files whose well-formed records are under 64 KiB).
C14_CorruptLinesSkipped ==
  (/\ replayed.done
   /\ ~logFile.closed
   /\ \E i \in 1..Len(Tokens(logFile)) : ~Parses(Tokens(logFile)[i])
   /\ \A i \in 1..Len(Tokens(logFile)) :
        Parses(Tokens(logFile)[i]) => ~TooLong(Tokens(logFile)[i])) =>
    /\ ~replayed.err
    /\ replayed.entries = WellFormed(logFile)

\* C15: a log is OPEN, then CLOSED for good: on a closed log every Append
\* returns an error and acknowledges nothing, no call changes the file's
\* contents, and no call opens the log again.
C15_ClosedStaysClosed ==
  [][(logFile.closed /\ crashes' = crashes) =>
       /\ logFile' = logFile
       /\ last'.op = "Append" => (last'.err /\ acked' = acked)]_vars

C15_Witness ==
  /\ logFile.closed
  /\ Len(logFile.lines) > 0
  /\ last.op = "Append"
  /\ last.err

\* node n of a tree of minimum degree t and everything below it: as many
\* values as keys, one child more than keys unless a leaf, and, the root
\* apart, between t-1 and 2t-1 keys
RECURSIVE Occupied(_, _, _)
Occupied(n, t, isRoot) ==
  /\ Len(n.values) = Len(n.keys)
  /\ n.isLeaf \/ Len(n.children) = Len(n.keys) + 1
  /\ isRoot \/ (t - 1 <= Len(n.keys) /\ Len(n.keys) <= 2 * t - 1)
  /\ \A i \in 1..Len(n.children) : Occupied(n.children[i], t, FALSE)

RECURSIVE NodeCount(_)
NodeCount(n) ==
  LET RECURSIVE Sum(_)
      Sum(i) == IF i > Len(n.children) THEN 0
                ELSE NodeCount(n.children[i]) + Sum(i + 1)
  IN  1 + Sum(1)

RECURSIVE LeafDepths(_, _)
LeafDepths(n, d) ==
  IF n.isLeaf THEN {d}
  ELSE UNION {LeafDepths(n.children[i], d + 1) : i \in 1..Len(n.children)}

C17_Balanced == ~panicked => Cardinality(LeafDepths(tree.root, 0)) <= 1

\* an Insert has split the root of a two-level tree, a Delete has taken a
\* level off a three-level one
C17_Witness ==
  /\ ~panicked
  /\ \/ lastOp.op = "Insert" /\ LeafDepths(before.root, 0) = {1}
        /\ LeafDepths(tree.root, 0) = {2}
     \/ lastOp.op = "Delete" /\ LeafDepths(before.root, 0) = {2}
        /\ LeafDepths(tree.root, 0) = {1}

\* the keys of n ascend strictly and lie strictly between lo and hi, and so
\* for every child between the separators on its two sides
RECURSIVE Ordered(_, _, _)
Ordered(n, lo, hi) ==
  /\ \A i \in 1..Len(n.keys) : lo < n.keys[i] /\ n.keys[i] < hi
  /\ \A i \in 1..(Len(n.keys) - 1) : n.keys[i] < n.keys[i + 1]
  /\ \A i \in 1..Len(n.children) :
       Ordered(n.children[i],
               IF i = 1 \/ i - 1 > Len(n.keys) THEN lo ELSE n.keys[i - 1],
               IF i > Len(n.keys) THEN hi ELSE n.keys[i])

\* C18: after any sequence of Insert and Delete that returned, Insert of
\* keys already present included, the keys of every node ascend strictly
\* and every key below a child lies strictly between the child's separators.
C18_Ordered == ~panicked => Ordered(tree.root, 0, MaxKey + MaxDeepKey + 1)

\* C19: CreateTable on a name the catalog holds returns an error and changes
\* nothing: not the catalog entry, not the tree in memory, not the page
\* counter, nor anything else of the store.
C19_DuplicateCreateRejected ==
  (last.op = "CreateTable" /\ last.reg) => (last.err /\ last.same)

C19_Witness ==
  /\ last.op = "CreateTable"
  /\ last.reg
  /\ last.err
  /\ kv.tables[last.table] # NoTree
  /\ Len(kv.tables[last.table].root.keys) > 0

\* C20: Put, Delete and Get on a table the catalog does not hold return an
\* error, Get with found = false, and change nothing: no record in the log,
\* no tree in memory, no page written.
C20_UnregisteredTableRejected ==
  (last.op \in {"Put", "Delete", "Get"} /\ ~last.reg) =>
    (last.err /\ ~last.panic /\ ~last.found /\ last.same)

C20_Witness ==
  /\ last.op = "Delete"
  /\ ~last.reg
  /\ last.err
  /\ \E t \in Tables : kv.catalog[t] # NoMeta /\ kv.tables[t] # NoTree

\* C21: DropTable of a registered table succeeds, loaded in memory or not,
\* and leaves the name unregistered; and the name stays unregistered: neither
\* Load nor closing and reopening the store registers a table that was not
\* registered before.
C21_DroppedTableStaysDropped ==
  /\ (last.op = "DropTable" /\ last.reg) =>
       (~last.err /\ kv.catalog[last.table] = NoMeta)
  /\ last.op \in {"Load", "Reopen"} => Registered(kv) \subseteq last.names

\* the keys a table of the store holds in memory
RowKeys(store, table) ==
  {k \in CatKeys : searchNode(store.tables[table].root, k).found}

\* C22: after a successful Put or Delete the row_count the catalog holds for
\* the table equals the number of keys in the table.
C22_RowCountIsKeyCount ==
  (/\ last.op \in {"Put", "Delete"}
   /\ ~last.err /\ ~last.panic
   /\ kv.catalog[last.table] # NoMeta
   /\ kv.tables[last.table] # NoTree) =>
    kv.catalog[last.table].RowCount = Cardinality(RowKeys(kv, last.table))

\* ------------------------------------- goroutines writing their own keys
\* numberOfRecords keys per worker: worker th writes th's block of keys
StressTable == "users"

StressKey(th, j) == (th - 1) * MaxRecords + j

StressKeys == 1..(Cardinality(Threads) * MaxRecords)

\* fmt.Sprintf("value%d", key)
StressValue(key) == "value" \o ToString(key)

StressFrame == UNCHANGED <<phase, pc, ret, pre, crashedAt, allOK, loadResult,
                           crashes, btVars, txVars, catVars, logVars, flusher,
                           locks, session, reply, epoch>>

Started == \E th \in Threads : workers[th].at # "new"

Finished == \A th \in Threads : workers[th].at = "done"

StressCreateTable(degree) ==
  /\ ~Started
  /\ \E r \in {CreateTableName(kv, StressTable, degree)} : kv' = r.kv
  /\ UNCHANGED workers
  /\ StressFrame

\* go func(workerID): the loop of Puts, or BeginTransaction and the PutBatch
\* calls, which touch nothing but the goroutine's own transaction
StressStart(th, mode) ==
  /\ workers[th].at = "new"
  /\ workers' = [workers EXCEPT ![th].mode = mode, ![th].at = "idle"]
  /\ UNCHANGED kv
  /\ StressFrame

\* the next call of the worker's loop has ended: with an error the worker is
\* through, otherwise it goes on to its next record
StressReturn(th, err, next) ==
  workers' = [workers EXCEPT
                ![th].ok = @ /\ ~err,
                ![th].j = IF err THEN @ ELSE next,
                ![th].at = IF err \/ next >= MaxRecords THEN "done" ELSE "idle"]

\* Commit, tx.kv.Get of the operation's key for the rollback journal
StressCommitGet(th) ==
  /\ workers[th].at = "idle" /\ workers[th].mode = "tx"
  /\ \E w \in {workers[th]} :
       \E g \in {Get(kv, StressTable, StressKey(th, w.j + 1))} :
         /\ kv' = g.kv
         /\ workers' = [workers EXCEPT
              ![th].at = "backed",
              ![th].rollbackLog =
                 Append(@, operationBackup(StressTable, StressKey(th, w.j + 1),
                                           g.value, g.found))]
  /\ StressFrame

\* Put, up to the log append; when it fails inside Commit, rollback runs
StressLookup(th) ==
  /\ \/ workers[th].at = "idle" /\ workers[th].mode = "put"
     \/ workers[th].at = "backed"
  /\ \E w \in {workers[th]} :
       \E l \in {Lookup(kv, "PUT", StressTable)} :
         IF l.err
         THEN \E u \in {IF w.mode = "tx"
                        THEN rollback(l.kv, w.rollbackLog, Len(w.rollbackLog) - 1)
                        ELSE Ok(l.kv)} :
                /\ kv' = u.kv
                /\ StressReturn(th, TRUE, w.j)
         ELSE /\ kv' = l.kv
              /\ workers' = [workers EXCEPT ![th].at = "ready", ![th].bt = l.bt]
  /\ StressFrame

\* kv.log.Append(entry); the store of the stress run is never closed
StressAppend(th) ==
  /\ workers[th].at = "ready"
  /\ \E key \in {StressKey(th, workers[th].j + 1)} :
       \E a \in {LogAppend(kv, LogEntry("PUT", StressTable, key, StressValue(key)))} :
         /\ ~a.err
         /\ kv' = a.kv
         /\ workers' = [workers EXCEPT ![th].at = "appended"]
  /\ StressFrame

\* bt.Insert(key, value), under the tree's mutex
StressMutate(th) ==
  /\ workers[th].at = "appended"
  /\ \E key \in {StressKey(th, workers[th].j + 1)} :
       \E m \in {Mutate(kv, "PUT", StressTable, key, StressValue(key),
                        workers[th].bt)} :
         /\ ~m.panic
         /\ kv' = m.kv
         /\ workers' = [workers EXCEPT ![th].at = "mutated"]
  /\ StressFrame

\* kv.Flush(table), up to the page write
StressFlushWrite(th) ==
  /\ workers[th].at = "mutated"
  /\ \E w \in {FlushWrite(kv, StressTable)} :
       /\ ~w.err
       /\ kv' = w.kv
       /\ workers' = [workers EXCEPT ![th].at = "written"]
  /\ StressFrame

\* kv.Flush(table), the catalog save, and the return of Put: the put worker
\* goes on to its Get, Commit to its next operation
StressFlushSave(th) ==
  /\ workers[th].at = "written"
  /\ \E f \in {FlushSave(kv)} :
       /\ ~f.err
       /\ kv' = f.kv
       /\ IF workers[th].mode = "put"
          THEN workers' = [workers EXCEPT ![th].at = "returned"]
          ELSE StressReturn(th, FALSE, workers[th].j + 1)
  /\ StressFrame

\* the worker's Get of the key it has just put
StressGet(th) ==
  /\ workers[th].at = "returned"
  /\ \E key \in {StressKey(th, workers[th].j + 1)} :
       \E g \in {Get(kv, StressTable, key)} :
         /\ kv' = g.kv
         /\ workers' = [workers EXCEPT
              ![th].got = @ /\ ~g.err /\ ~g.panic /\ g.found
                            /\ g.value = StressValue(key),
              ![th].j = @ + 1,
              ![th].at = IF workers[th].j + 1 >= MaxRecords THEN "done" ELSE "idle"]
  /\ StressFrame

StressNext ==
  \/ \E degree \in KVDegrees : StressCreateTable(degree)
  \/ \E th \in Threads, mode \in {"put", "tx"} : StressStart(th, mode)
  \/ \E th \in Threads : StressCommitGet(th)
  \/ \E th \in Threads : StressLookup(th)
  \/ \E th \in Threads : StressAppend(th)
  \/ \E th \in Threads : StressMutate(th)
  \/ \E th \in Threads : StressFlushWrite(th)
  \/ \E th \in Threads : StressFlushSave(th)
  \/ \E th \in Threads : StressGet(th)

SpecStress == KVInit /\ [][StressNext]_vars

FlusherFrame == UNCHANGED <<phase, pc, ret, pre, crashedAt, allOK, loadResult,
                            crashes, btVars, txVars, logVars, workers, locks,
                            session, reply, epoch>>

\* what the flusher's step leaves in last: the Flush it called and how the
\* store stood
Flushed(table, r) ==
  last' = [NoCall EXCEPT !.op = "PeriodicFlush", !.table = table,
                         !.err = r.err, !.same = (r.kv = kv)]

\* StartPeriodicFlush: the ticker and the goroutine that ranges over it
StartPeriodicFlush ==
  /\ flusher.at = "off"
  /\ flusher' = [at |-> "waiting", todo |-> {}]
  /\ UNCHANGED <<kv, last>>
  /\ FlusherFrame

\* a tick arrives: the goroutine takes the read lock of the table map and
\* starts to range over it
FlusherTick ==
  /\ flusher.at = "waiting"
  /\ flusher' = [at |-> "flushing",
                 todo |-> {t \in Tables : kv.tables[t] # NoTree}]
  /\ UNCHANGED <<kv, last>>
  /\ FlusherFrame

\* kv.Flush(table) for the next table of the map, its error dropped
FlusherFlush(table) ==
  /\ flusher.at = "flushing"
  /\ table \in flusher.todo
  /\ \E r \in {Flush(kv, table)} :
       /\ kv' = r.kv
       /\ Flushed(table, r)
  /\ flusher' = [flusher EXCEPT !.todo = @ \ {table}]
  /\ FlusherFrame

\* the range is through: the read lock is released, the goroutine waits for
\* the next tick
FlusherRelease ==
  /\ flusher.at = "flushing"
  /\ flusher.todo = {}
  /\ flusher' = [flusher EXCEPT !.at = "waiting"]
  /\ UNCHANGED <<kv, last>>
  /\ FlusherFrame

FlusherStep ==
  \/ FlusherTick
  \/ \E table \in Tables : FlusherFlush(table)
  \/ FlusherRelease

\* the calls of the store come between two passes of the flusher, which
\* holds the read lock of the table map during a pass; Close takes no lock
\* of the store and comes at any time
FlushNext ==
  \/ flusher.at # "flushing" /\ CatNext
  \/ CatClose
  \/ StartPeriodicFlush
  \/ FlusherStep

SpecFlush == KVInit /\ [][FlushNext]_vars

\* the ticker fires every interval and the goroutine is scheduled
SpecFlushLive == SpecFlush /\ WF_vars(FlusherStep)

\* C24: once the store is closed, the goroutine of StartPeriodicFlush comes
\* to an end: from some moment on it calls Flush no more.
C24_FlusherStopsOnClose ==
  [](kv.closed => <>[](flusher.at # "flushing"))

\* ------------------------------------------------ the locks of the store
\* kv.tablesMu, a tree's mutex, the disk manager's mu, the catalog's mu
LockNames == {"tablesMu", "tree", "dm", "catalog"}

Lock(l) == [lock |-> l, how |-> "Lock"]

Unlock(l) == [lock |-> l, how |-> "Unlock"]

RLock(l) == [lock |-> l, how |-> "RLock"]

RUnlock(l) == [lock |-> l, how |-> "RUnlock"]

\* the lock calls of each method, in the order the method makes them
DiskLocks == <<Lock("dm"), Unlock("dm")>>

TreeLocks == <<Lock("tree"), Unlock("tree")>>

CatalogGetLocks == <<RLock("catalog"), RUnlock("catalog")>>

CatalogWriteLocks == <<Lock("catalog"), Unlock("catalog")>>

\* Save calls WritePage before its deferred RUnlock runs
CatalogSaveLocks == <<RLock("catalog")>> \o DiskLocks \o <<RUnlock("catalog")>>

\* Load reads page 0, then takes the lock
CatalogLoadLocks == DiskLocks \o CatalogWriteLocks

TableLookupLocks == <<RLock("tablesMu"), RUnlock("tablesMu")>>

\* catalog.Get, ReadPage, Deserialize, kv.tables[table] = bt
MaterializeLocks ==
  CatalogGetLocks \o DiskLocks \o <<Lock("tablesMu"), Unlock("tablesMu")>>

FlushLocks ==
  TableLookupLocks \o CatalogGetLocks \o TreeLocks \o DiskLocks \o CatalogSaveLocks

\* Put and Delete on a table that is in memory (warm) or is not (cold)
WriteLocks(warm) ==
  TableLookupLocks \o (IF warm THEN <<>> ELSE MaterializeLocks)
    \o TreeLocks \o FlushLocks

GetLocks(warm) ==
  TableLookupLocks \o (IF warm THEN <<>> ELSE MaterializeLocks) \o TreeLocks

\* the Unlock of tablesMu is deferred to the return
CreateTableNameLocks ==
  CatalogGetLocks \o <<Lock("tablesMu")>> \o DiskLocks \o CatalogWriteLocks
    \o CatalogSaveLocks \o <<Unlock("tablesMu")>>

DropTableLocks ==
  <<Lock("tablesMu")>> \o CatalogWriteLocks \o <<Unlock("tablesMu")>>

\* Load with one table in the catalog and one record in the log
LoadLocks ==
  CatalogLoadLocks \o DiskLocks \o <<Lock("tablesMu"), Unlock("tablesMu")>>
    \o TableLookupLocks \o TreeLocks

\* one pass of the periodic flusher over one table
PeriodicFlushLocks ==
  <<RLock("tablesMu")>> \o FlushLocks \o <<RUnlock("tablesMu")>>

LockOps == {"CreateTableName", "Put", "PutCold", "Get", "GetCold", "Flush",
            "DropTable", "Load", "PeriodicFlush"}

LocksOf(op) ==
  CASE op = "CreateTableName" -> CreateTableNameLocks
    [] op = "Put" -> WriteLocks(TRUE)
    [] op = "PutCold" -> WriteLocks(FALSE)
    [] op = "Get" -> GetLocks(TRUE)
    [] op = "GetCold" -> GetLocks(FALSE)
    [] op = "Flush" -> FlushLocks
    [] op = "DropTable" -> DropTableLocks
    [] op = "Load" -> LoadLocks
    [] op = "PeriodicFlush" -> PeriodicFlushLocks

LockFrame == UNCHANGED <<btVars, kvVars, txVars, catVars, logVars, workers,
                         flusher, session, reply, epoch>>

Holds(th, l, how) ==
  \E i \in 1..Len(locks[th].held) : locks[th].held[i] = [lock |-> l, how |-> how]

\* a goroutine inside Lock: sync.RWMutex lets no new reader in
Waiting(th, l) ==
  /\ locks[th].pending
  /\ locks[th].prog # <<>>
  /\ Head(locks[th].prog) = Lock(l)

\* the most recent entry of held for the lock is dropped
RECURSIVE DropLast(_, _)
DropLast(held, l) ==
  IF held = <<>> THEN <<>>
  ELSE IF held[Len(held)].lock = l THEN SubSeq(held, 1, Len(held) - 1)
  ELSE Append(DropLast(SubSeq(held, 1, Len(held) - 1), l), held[Len(held)])

\* a goroutine enters an operation of the store
LockCall(th, op) ==
  /\ locks[th].op = "none"
  /\ locks' = [locks EXCEPT ![th] = [op |-> op, prog |-> LocksOf(op),
                                     held |-> <<>>, pending |-> FALSE]]
  /\ LockFrame

\* mu.Lock() is called
LockRequest(th) ==
  /\ locks[th].prog # <<>>
  /\ Head(locks[th].prog).how = "Lock"
  /\ ~locks[th].pending
  /\ locks' = [locks EXCEPT ![th].pending = TRUE]
  /\ LockFrame

\* mu.Lock() returns: nobody holds the lock
LockAcquire(th) ==
  /\ locks[th].prog # <<>>
  /\ locks[th].pending
  /\ \E ev \in {Head(locks[th].prog)} :
       /\ \A o \in Threads : ~Holds(o, ev.lock, "Lock") /\ ~Holds(o, ev.lock, "RLock")
       /\ locks' = [locks EXCEPT ![th].prog = Tail(@), ![th].pending = FALSE,
                                 ![th].held = Append(@, ev)]
  /\ LockFrame

\* mu.RLock(): no writer holds the lock or waits for it
LockRead(th) ==
  /\ locks[th].prog # <<>>
  /\ \E ev \in {Head(locks[th].prog)} :
       /\ ev.how = "RLock"
       /\ \A o \in Threads : ~Holds(o, ev.lock, "Lock") /\ ~Waiting(o, ev.lock)
       /\ locks' = [locks EXCEPT ![th].prog = Tail(@), ![th].held = Append(@, ev)]
  /\ LockFrame

\* mu.Unlock() / mu.RUnlock()
LockRelease(th) ==
  /\ locks[th].prog # <<>>
  /\ \E ev \in {Head(locks[th].prog)} :
       /\ ev.how \in {"Unlock", "RUnlock"}
       /\ locks' = [locks EXCEPT ![th].prog = Tail(@),
                                 ![th].held = DropLast(@, ev.lock)]
  /\ LockFrame

\* the operation returns
LockReturn(th) ==
  /\ locks[th].op # "none"
  /\ locks[th].prog = <<>>
  /\ locks' = [locks EXCEPT ![th] = NoLocks]
  /\ LockFrame

LockNext ==
  \/ \E th \in Threads, op \in LockOps : LockCall(th, op)
  \/ \E th \in Threads : LockRequest(th)
  \/ \E th \in Threads : LockAcquire(th)
  \/ \E th \in Threads : LockRead(th)
  \/ \E th \in Threads : LockRelease(th)
  \/ \E th \in Threads : LockReturn(th)

SpecLocks == KVInit /\ [][LockNext]_vars

\* table-map lock, per-tree mutex, disk manager mutex, catalog lock
Rank(l) ==
  CASE l = "tablesMu" -> 1
    [] l = "tree" -> 2
    [] l = "dm" -> 3
    [] l = "catalog" -> 4

\* C25: a goroutine holds its locks in the order table-map lock, tree mutex,
\* disk manager mutex, catalog lock: it never takes a lock that comes
\* earlier in this order than one it holds.
C25_LockOrder ==
  \A th \in Threads :
    \A i, j \in 1..Len(locks[th].held) :
      i < j => Rank(locks[th].held[i].lock) <= Rank(locks[th].held[j].lock)

\* ------------------------------------ transactions that are rolled back
\* one table, short queues
RollNext ==
  \/ TxCreateTable("users", MaxKVDegree)
  \/ \E key \in CatKeys, value \in KVVals :
       Len(kv.wal) < MaxCatLog /\ TxDirect("users", key, value)
  \/ TxBegin
  \/ \E key \in CatKeys, value \in KVVals :
       Len(tx.operations) < MaxRollOps /\ TxPutBatch("users", key, value)
  \/ \E key \in CatKeys :
       Len(tx.operations) < MaxRollOps /\ TxDeleteBatch("users", key)
  \/ Len(kv.wal) + Len(tx.operations) <= MaxTxLog /\ TxCommit
  \/ TxRollback

SpecRoll == KVInit /\ [][RollNext]_vars

\* C26: PutBatch, DeleteBatch and Rollback leave the store, its log and its
\* catalog as they are, and a Commit that follows the Rollback applies
\* nothing and succeeds.
C26_RollbackHasNoEffect ==
  [][/\ (commit'.count = commit.count /\ tx' # tx) => kv' = kv
     /\ commit'.result = "rolledback" => (kv' = kv /\ tx' = NoTx)
     /\ (commit.result = "rolledback" /\ commit'.count = commit.count + 1) =>
          (kv' = kv /\ commit'.result = "ok")]_vars

\* a transaction with queued operations has been rolled back on a store
\* that holds a key
C26_Witness ==
  /\ commit.result = "rolledback"
  /\ commit.operations # <<>>
  /\ \E k \in KVKeys : GetResult(kv, "users", k).found

\* ------------------------------------------------------ the SQL session
\* a parsed statement; where says whether it has a WHERE key = ... clause
Statement(kind, table, key, value, where) ==
  [kind |-> kind, table |-> table, key |-> key, value |-> value, where |-> where]

Bare(kind) == Statement(kind, None, 0, "", FALSE)

DML == {"INSERT", "UPDATE", "DELETE"}

\* what a handler returns and leaves behind
Handled(store, s, t, err) ==
  [kv |-> store, session |-> s, tx |-> t, err |-> err, panic |-> FALSE]

\* the store's call inside a handler: its store, its error, its panic
Applied(r, s, t) ==
  [kv |-> r.kv, session |-> s, tx |-> t, err |-> r.err, panic |-> r.panic]

\* a BEGIN that replaces the active transaction by a new one
handleTransactionNested(store, s, t, stmt) ==
  CASE stmt.kind = "BEGIN" ->
         Handled(store, [s EXCEPT !.Transaction = "tx"], NoTx, FALSE)
    [] stmt.kind = "COMMIT" ->
         IF s.Transaction = "nil" THEN Handled(store, s, t, TRUE)
         ELSE The({[kv |-> r.kv, session |-> [s EXCEPT !.Transaction = "nil"],
                    tx |-> r.tx, err |-> r.err, panic |-> r.panic] :
                     r \in {Commit(store, t)}})
    [] stmt.kind = "ROLLBACK" ->
         IF s.Transaction = "nil" THEN Handled(store, s, t, TRUE)
         ELSE Handled(store, [s EXCEPT !.Transaction = "nil"], Rollback(t), FALSE)

handleTransaction(store, s, t, stmt) ==
  CASE stmt.kind = "BEGIN" ->
         IF s.Transaction # "nil" THEN Handled(store, s, t, TRUE)
         ELSE Handled(store, [s EXCEPT !.Transaction = "tx"], NoTx, FALSE)
    [] stmt.kind = "COMMIT" ->
         IF s.Transaction = "nil" THEN Handled(store, s, t, TRUE)
         ELSE The({[kv |-> r.kv, session |-> [s EXCEPT !.Transaction = "nil"],
                    tx |-> r.tx, err |-> r.err, panic |-> r.panic] :
                     r \in {Commit(store, t)}})
    [] stmt.kind = "ROLLBACK" ->
         IF s.Transaction = "nil" THEN Handled(store, s, t, TRUE)
         ELSE Handled(store, [s EXCEPT !.Transaction = "nil"], Rollback(t), FALSE)

handleInsert(store, s, t, stmt) ==
  IF s.Transaction # "nil"
  THEN Handled(store, s, PutBatch(t, stmt.table, stmt.key, stmt.value), FALSE)
  ELSE Applied(Put(store, stmt.table, stmt.key, stmt.value), s, t)

handleUpdate(store, s, t, stmt) ==
  IF ~stmt.where THEN Handled(store, s, t, TRUE)
  ELSE IF s.Transaction # "nil"
  THEN Handled(store, s, PutBatch(t, stmt.table, stmt.key, stmt.value), FALSE)
  ELSE Applied(Put(store, stmt.table, stmt.key, stmt.value), s, t)

handleDelete(store, s, t, stmt) ==
  IF ~stmt.where THEN Handled(store, s, t, TRUE)
  ELSE IF s.Transaction # "nil"
  THEN Handled(store, s, DeleteBatch(t, stmt.table, stmt.key), FALSE)
  ELSE Applied(KVDelete(store, stmt.table, stmt.key), s, t)

handleSelect(store, s, t, stmt) ==
  IF ~stmt.where THEN Handled(store, s, t, TRUE)
  ELSE The({[kv |-> g.kv, session |-> s, tx |-> t, err |-> g.err \/ ~g.found,
             panic |-> g.panic] : g \in {Get(store, stmt.table, stmt.key)}})

ParseAndExecute(store, s, t, stmt) ==
  CASE stmt.kind \in {"BEGIN", "COMMIT", "ROLLBACK"} ->
         handleTransaction(store, s, t, stmt)
    [] stmt.kind = "INSERT" -> handleInsert(store, s, t, stmt)
    [] stmt.kind = "SELECT" -> handleSelect(store, s, t, stmt)
    [] stmt.kind = "DELETE" -> handleDelete(store, s, t, stmt)
    [] stmt.kind = "UPDATE" -> handleUpdate(store, s, t, stmt)
    [] OTHER -> Handled(store, s, t, TRUE)

\* the operation a statement puts into the queue
EntryOf(stmt) ==
  IF stmt.kind = "DELETE" THEN LogEntry("DELETE", stmt.table, stmt.key, "")
  ELSE LogEntry("PUT", stmt.table, stmt.key, stmt.value)

SqlFrame == UNCHANGED <<pc, ret, pre, crashedAt, allOK, loadResult, crashes,
                        btVars, catVars, logVars, workers, flusher, locks,
                        epoch>>

\* the table of the session's statements is made through the store
SqlCreateTable(name, degree) ==
  /\ TxRunning
  /\ kv' = CreateTableName(kv, name, degree).kv
  /\ commit' = Forget(commit)
  /\ UNCHANGED <<phase, tx, session, reply>>
  /\ SqlFrame

\* one statement of the session, from ParseAndExecute to its return; a panic
\* ends the process, and the session with it
SqlExec(stmt) ==
  /\ TxRunning
  /\ \E r \in {ParseAndExecute(kv, session, tx, stmt)} :
       IF r.panic
       THEN /\ kv' = Persisted(r.kv)
            /\ phase' = "down"
            /\ tx' = NoTx
            /\ session' = NewSession
            /\ reply' = NoReply
            /\ commit' = [Forget(commit) EXCEPT !.count = @ + 1]
       ELSE /\ kv' = r.kv
            /\ phase' = phase
            /\ tx' = r.tx
            /\ session' = r.session
            /\ reply' = [kind |-> stmt.kind, err |-> r.err,
                         active |-> (session.Transaction # "nil"),
                         queue |-> tx.operations, same |-> (r.kv = kv),
                         entry |-> IF stmt.kind \in DML THEN EntryOf(stmt)
                                   ELSE None]
            /\ commit' = IF stmt.kind = "COMMIT" /\ session.Transaction # "nil"
                         THEN [result |-> IF r.err THEN "err" ELSE "ok",
                               operations |-> tx.operations,
                               snap |-> Snapshot(kv),
                               count |-> commit.count + 1]
                         ELSE Forget(commit)
  /\ SqlFrame

\* the tables and keys of the statements: a table that is never created
\* rejects every key alike
Addressed(tables, keys) ==
  {e \in tables \X keys : e[1] \in KVTables \/ e[2] = 1}

\* the statements of a run: the three transaction words, a statement the
\* parser does not support, INSERT of every key, and UPDATE, DELETE and
\* SELECT of key 1
StatementsOn(tables, keys) ==
  {Bare(k) : k \in {"BEGIN", "COMMIT", "ROLLBACK", "CREATE"}}
    \cup {Statement("INSERT", e[1], e[2], value, TRUE) :
            e \in Addressed(tables, keys), value \in KVVals}
    \cup {Statement("UPDATE", e[1], e[2], value, TRUE) :
            e \in Addressed(tables, {1}), value \in KVVals}
    \cup {Statement(k, e[1], e[2], "", TRUE) :
            k \in {"DELETE", "SELECT"}, e \in Addressed(tables, {1})}
    \cup {Statement(k, "users", 1, "", FALSE) : k \in {"UPDATE", "DELETE", "SELECT"}}

\* a statement that writes is taken while the queue and the log have room
SqlRoom(stmt, queue, direct) ==
  /\ (stmt.kind \in DML /\ session.Transaction # "nil") =>
        Len(tx.operations) < queue
  /\ (stmt.kind \in DML /\ session.Transaction = "nil") => Len(kv.wal) < direct
  /\ stmt.kind = "COMMIT" => Len(tx.rollbackLog) < MaxTxOps

SqlNext ==
  \/ \E name \in KVTables : SqlCreateTable(name, MaxKVDegree)
  \/ \E stmt \in StatementsOn(Tables, CatKeys \cup {MaxKVKey}) :
       SqlRoom(stmt, MaxTxOps, MaxTxLog) /\ SqlExec(stmt)

SpecSql == KVInit /\ [][SqlNext]_vars

\* one key, short queues
SessionNext ==
  \/ SqlCreateTable("users", MaxKVDegree)
  \/ \E stmt \in StatementsOn(Tables, {1}) :
       /\ SqlRoom(stmt, MaxRollOps, MaxCatLog)
       /\ stmt.kind = "COMMIT" => Len(kv.wal) + Len(tx.operations) <= MaxTxLog
       /\ SqlExec(stmt)

SpecSession == KVInit /\ [][SessionNext]_vars

\* C27: BEGIN in a session with an active transaction is an error and keeps
\* the transaction and its queue; COMMIT and ROLLBACK in a session without
\* one are errors; after every COMMIT and every ROLLBACK the session has no
\* active transaction.
C27_SessionLifecycle ==
  /\ (reply.kind = "BEGIN" /\ reply.active) =>
        /\ reply.err
        /\ session.Transaction = "tx"
        /\ tx.operations = reply.queue
        /\ reply.same
  /\ (reply.kind = "BEGIN" /\ ~reply.active) =>
        (~reply.err /\ session.Transaction = "tx" /\ tx = NoTx)
  /\ (reply.kind \in {"COMMIT", "ROLLBACK"} /\ ~reply.active) =>
        (reply.err /\ reply.same)
  /\ reply.kind \in {"COMMIT", "ROLLBACK"} => session.Transaction = "nil"

\* BEGIN has been refused in a session whose transaction has a queue
C27_Witness ==
  /\ reply.kind = "BEGIN"
  /\ reply.active
  /\ reply.err
  /\ tx.operations # <<>>

\* C28: a statement that writes, in a session with an active transaction,
\* goes to the end of the transaction's queue and leaves the store as it is;
\* when COMMIT fails, Get returns for every table and key what it returned
\* before the COMMIT; without an active transaction the statement is applied
\* to the store: Get returns what the statement wrote.
C28_QueuedUntilCommit ==
  /\ (reply.kind \in DML /\ reply.active /\ ~reply.err) =>
        /\ reply.same
        /\ tx.operations = Append(reply.queue, reply.entry)
  /\ (reply.kind = "COMMIT" /\ reply.active /\ reply.err) =>
        Snapshot(kv) = commit.snap
  /\ (reply.kind \in DML /\ ~reply.active /\ ~reply.err) =>
        /\ session.Transaction = "nil"
        /\ GetResult(kv, reply.entry.Table, reply.entry.Key) =
             LastEffect(<<reply.entry>>, reply.entry.Table, reply.entry.Key)

\* ------------------------------------------------- the catalog on its own
CatalogCreate(name, degree, rootID) ==
  \E r \in {CatalogCreateTable(kv, name, degree, rootID)} :
    Done("Catalog.CreateTable", name, r, FALSE, rootID)

CatalogDrop(name) ==
  \E r \in {CatalogDropTable(kv, name)} :
    Done("Catalog.DropTable", name, r, FALSE, -1)

CatalogIncrement(name) ==
  /\ kv.catalog[name] # NoMeta => kv.catalog[name].RowCount < MaxRows
  /\ \E r \in {IncrementRowCount(kv, name)} :
       Done("IncrementRowCount", name, r, FALSE, -1)

CatalogDecrement(name) ==
  \E r \in {DecrementRowCount(kv, name)} :
    Done("DecrementRowCount", name, r, FALSE, -1)

CatalogSaveCall ==
  \E r \in {CatalogSave(kv)} : Done("Save", None, r, FALSE, -1)

\* NewCatalog on a disk manager for the same file, then Load
CatalogLoadNew ==
  \E r \in {CatalogLoad([kv EXCEPT !.catalog = NewCatalog])} :
    Done("LoadNew", None, r, FALSE, -1)

CatalogNext ==
  \/ \E name \in Tables, degree \in 2..MaxDegree, rootID \in 1..MaxPages :
       CatalogCreate(name, degree, rootID)
  \/ \E name \in Tables : CatalogDrop(name)
  \/ \E name \in Tables : CatalogIncrement(name)
  \/ \E name \in Tables : CatalogDecrement(name)
  \/ CatalogSaveCall
  \/ CatalogLoadNew

SpecCatalog == KVInit /\ [][CatalogNext]_vars

\* C29: a catalog that is saved and then loaded into a new Catalog on the
\* same file holds the same names, each with the same root id, degree,
\* creation time and row count.
C29_CatalogRoundTrip ==
  [][(last.op = "Save" /\ ~last.err /\ last'.op = "LoadNew") =>
       (~last'.err /\ kv'.catalog = kv.catalog)]_vars

\* ------------------------------------------- page allocation on its own
PageAllocate ==
  /\ kv.nextID < MaxAllocs
  /\ \E a \in {AllocatePage(kv)} : Done("AllocatePage", None, Ok(a.kv), FALSE, a.id)

PageFree(id) ==
  /\ Len(kv.fl) < MaxFreed
  /\ Done("FreePage", None, Ok(FreePage(kv, id)), FALSE, id)

AllocNext ==
  \/ PageAllocate
  \/ \E id \in 0..MaxAllocs : PageFree(id)

SpecAlloc == KVInit /\ [][AllocNext]_vars

\* C30: AllocatePage returns the most recently freed page id when the free
\* list is non-empty, removing it and leaving the next-id counter alone
\* (freed ids come back last in, first out); otherwise it returns the next-id
\* counter and increments it by one.
C30_AllocationPolicy ==
  [][/\ last'.op = "FreePage" =>
          /\ Len(kv'.fl) = Len(kv.fl) + 1
          /\ kv'.fl[Len(kv'.fl)] = last'.page
          /\ \A i \in 1..Len(kv.fl) : kv'.fl[i] = kv.fl[i]
          /\ kv'.nextID = kv.nextID
     /\ (last'.op = "AllocatePage" /\ Len(kv.fl) > 0) =>
          /\ last'.page = kv.fl[Len(kv.fl)]
          /\ Len(kv'.fl) = Len(kv.fl) - 1
          /\ \A i \in 1..Len(kv'.fl) : kv'.fl[i] = kv.fl[i]
          /\ kv'.nextID = kv.nextID
     /\ (last'.op = "AllocatePage" /\ Len(kv.fl) = 0) =>
          /\ last'.page = kv.nextID
          /\ kv'.nextID = kv.nextID + 1
          /\ kv'.fl = <<>>]_vars

\* FreePage(0); FreePage(1); AllocatePage has just returned 1
C30_Witness ==
  /\ last.op = "AllocatePage"
  /\ last.page = 1
  /\ kv.fl = <<0>>
  /\ kv.nextID = 0

\* C31: after any run of AllocatePage and FreePage calls no page id is twice
\* on the free list and every id on it is below the next-allocation counter.
C31_FreelistInvariant ==
  /\ \A i, j \in 1..Len(kv.fl) : i # j => kv.fl[i] # kv.fl[j]
  /\ \A i \in 1..Len(kv.fl) : kv.fl[i] < kv.nextID

\* --------------------------- a store that is closed and opened with records
ReopenPut(table, key, value) ==
  /\ Len(kv.wal) < MaxReopenLog
  /\ \E r \in {Put(kv, table, key, value)} : Done("Put", table, r, FALSE, key)

ReopenDelete(table, key) ==
  /\ Len(kv.wal) < MaxReopenLog
  /\ \E r \in {KVDelete(kv, table, key)} : Done("Delete", table, r, FALSE, key)

ReopenNext ==
  \/ \E name \in KVTables, degree \in 2..MaxKVDegree : CatCreateTable(name, degree)
  \/ \E table \in KVTables, key \in CatKeys, value \in KVVals :
       ReopenPut(table, key, value)
  \/ \E table \in KVTables, key \in CatKeys : ReopenDelete(table, key)
  \/ \E table \in KVTables, key \in CatKeys : CatGet(table, key)
  \/ CatClose
  \/ CatReopen
  \/ CatLoad

SpecReopen == KVInit /\ [][ReopenNext]_vars

\* C32: Delete on a table the catalog holds but whose tree is not in memory
\* builds the tree from its root page, appends the DELETE record, removes
\* the key and returns normally, as Put does: it does not panic, and when it
\* returns without error the tree is in memory and the record is in the log.
C32_DeleteMaterializes ==
  (last.op = "Delete" /\ last.reg /\ ~last.mem) =>
    /\ ~last.panic
    /\ ~last.err => (kv.tables[last.table] # NoTree /\ Len(kv.wal) > 0)

\* ------------------------------------------- trees flushed and read back
FlushKeys == 1..MaxFlushKey

TripPut(table, key, value) ==
  /\ Len(kv.wal) < MaxFlushLog
  /\ \E r \in {Put(kv, table, key, value)} : Done("Put", table, r, FALSE, key)

TripDelete(table, key) ==
  /\ Len(kv.wal) < MaxFlushLog
  /\ \E r \in {KVDelete(kv, table, key)} : Done("Delete", table, r, FALSE, key)

TripFlush(table) ==
  \E r \in {Flush(kv, table)} : Done("Flush", table, r, FALSE, -1)

TripNext ==
  \/ \E name \in KVTables, degree \in 2..MaxKVDegree : CatCreateTable(name, degree)
  \/ \E table \in KVTables, key \in FlushKeys, value \in KVVals :
       TripPut(table, key, value)
  \/ \E table \in KVTables, key \in FlushKeys : TripDelete(table, key)
  \/ \E table \in KVTables : TripFlush(table)

SpecTrip == KVInit /\ [][TripNext]_vars

\* the pairs a tree holds, as Search finds them
Pairs(bt) == [k \in FlushKeys |-> searchNode(bt.root, k)]

\* C33: after a Flush that returned success, on its own or at the end of a
\* Put or Delete, the tree built from the table's root page with the disk
\* fetcher holds the same key->value pairs as the tree in memory, whatever
\* the number of its nodes.
C33_FlushRoundTrip ==
  (last.op \in {"Put", "Delete", "Flush"} /\ ~last.err /\ ~last.panic) =>
     \E m \in {Materialize(kv, last.table)} :
        /\ ~m.err
        /\ Pairs(m.tree) = Pairs(kv.tables[last.table])

\* ------------------------------- a store whose disk manager stops working
FaultDiskClose ==
  \E r \in {DiskClose(kv)} : Done("DiskClose", None, r, FALSE, -1)

FaultNext ==
  \/ \E name \in KVTables, degree \in 2..MaxKVDegree : CatCreateTable(name, degree)
  \/ \E table \in KVTables, key \in CatKeys, value \in KVVals :
       ReopenPut(table, key, value)
  \/ \E table \in KVTables, key \in CatKeys : ReopenDelete(table, key)
  \/ \E table \in KVTables, key \in CatKeys : CatGet(table, key)
  \/ FaultDiskClose
  \/ CatClose

SpecFault == KVInit /\ [][FaultNext]_vars

\* C34: when the append of a Put or Delete succeeds and its Flush fails, the
\* call returns the error, the record stays in the log and the tree in
\* memory keeps the mutation: the key of a Put is found with its value, the
\* key of a Delete is not found.
C34_FlushFailureKeepsMutation ==
  [][(/\ last'.op \in {"Put", "Delete"}
      /\ Len(kv'.wal) = Len(kv.wal) + 1
      /\ (last'.err \/ kv.diskClosed)) =>
       /\ last'.err
       /\ ~last'.panic
       /\ kv'.file = kv.file
       /\ kv'.wal[Len(kv'.wal)].Operation = (IF last'.op = "Put" THEN "PUT" ELSE "DELETE")
       /\ kv'.wal[Len(kv'.wal)].Key = last'.page
       /\ kv'.wal[Len(kv'.wal)].Table = last'.table
       /\ \E g \in {searchNode(kv'.tables[last'.table].root, last'.page)} :
            IF last'.op = "Put"
            THEN g.found /\ g.value = kv'.wal[Len(kv'.wal)].Value
            ELSE ~g.found]_vars

\* a Put whose append succeeded and whose Flush failed on the closed disk
\* manager, on a table that held the other key
C34_Witness ==
  /\ last.op = "Put"
  /\ last.err
  /\ kv.diskClosed
  /\ ~kv.closed
  /\ Len(kv.wal) = MaxReopenLog
  /\ kv.wal[Len(kv.wal)].Operation = "PUT"
  /\ kv.wal[Len(kv.wal)].Key = last.page
  /\ \A k \in CatKeys : searchNode(kv.tables[last.table].root, k).found
  /\ \E k \in CatKeys : ~Materialize([kv EXCEPT !.diskClosed = FALSE], last.table).err
       /\ ~searchNode(Materialize([kv EXCEPT !.diskClosed = FALSE], last.table).tree.root, last.page).found

\* the next step of a goroutine that is inside an operation
LockStep(th) ==
  \/ LockRequest(th)
  \/ LockAcquire(th)
  \/ LockRead(th)
  \/ LockRelease(th)
  \/ LockReturn(th)

\* C35: no execution deadlocks: while the periodic flusher is inside its
\* pass, holding the table-map read lock and taking it again in Flush, and
\* another goroutine runs CreateTable or DropTable, some goroutine that is
\* inside an operation can take its next step.
C35_NoDeadlock ==
  (\E th \in Threads : locks[th].op = "PeriodicFlush") =>
     \E th \in Threads : locks[th].op # "none" /\ ENABLED LockStep(th)

\* --------------------- goroutines that find the table not yet in memory
\* Each worker makes one call, a Put or a Get of its own key.  A worker's
\* variable bt points at the tree the table map holds (own = NoTree) or at
\* a tree the map does not hold (own is that tree).
ColdTable == "users"

ColdSeed == MaxCatKey + 1

ColdKey(th) == th

\* before the workers start: the table is created and written, and the
\* store is opened again on the two files, without Load
ColdCreateTable ==
  /\ ~Started
  /\ kv.catalog[ColdTable] = NoMeta
  /\ \E r \in {CreateTableName(kv, ColdTable, MaxKVDegree)} : kv' = r.kv
  /\ UNCHANGED workers
  /\ StressFrame

ColdSeedPut ==
  /\ ~Started
  /\ kv.tables[ColdTable] # NoTree
  /\ kv.wal = <<>>
  /\ \E r \in {Put(kv, ColdTable, ColdSeed, "a")} : kv' = r.kv
  /\ UNCHANGED workers
  /\ StressFrame

ColdReopen ==
  /\ ~Started
  /\ kv.tables[ColdTable] # NoTree
  /\ kv' = NewBTreeKVStore(kv.file, kv.wal)
  /\ UNCHANGED workers
  /\ StressFrame

ColdStart(th, mode) ==
  /\ workers[th].at = "new"
  /\ kv.catalog[ColdTable] # NoMeta
  /\ workers' = [workers EXCEPT ![th].mode = mode, ![th].at = "idle"]
  /\ UNCHANGED kv
  /\ StressFrame

\* bt, exists := kv.tables[table], under the read lock
ColdLookup(th) ==
  /\ workers[th].at = "idle"
  /\ workers' = [workers EXCEPT
       ![th].bt = (kv.tables[ColdTable] # NoTree),
       ![th].at = IF kv.tables[ColdTable] # NoTree THEN "ready" ELSE "cold"]
  /\ UNCHANGED kv
  /\ StressFrame

\* catalog.Get, ReadPage, Deserialize into the worker's bt
ColdRead(th) ==
  /\ workers[th].at = "cold"
  /\ \E m \in {Materialize(kv, ColdTable)} :
       workers' = [workers EXCEPT
         ![th].own = m.tree,
         ![th].bt = ~m.err,
         ![th].j = 1,
         ![th].ok = ~m.err,
         ![th].at = IF m.err THEN "done" ELSE "loaded"]
  /\ UNCHANGED kv
  /\ StressFrame

\* kv.tables[table] = bt, under the write lock: the tree the map held is now
\* held only by the workers whose bt pointed at it
ColdStore(th) ==
  /\ workers[th].at = "loaded"
  /\ kv' = [kv EXCEPT !.tables[ColdTable] = workers[th].own]
  /\ workers' = [o \in Threads |->
       IF o = th THEN [workers[o] EXCEPT !.own = NoTree, !.at = "ready"]
       ELSE IF workers[o].bt /\ workers[o].own = NoTree /\ workers[o].at # "done"
       THEN [workers[o] EXCEPT !.own = kv.tables[ColdTable]]
       ELSE workers[o]]
  /\ StressFrame

\* kv.log.Append(entry) of Put
ColdAppend(th) ==
  /\ workers[th].at = "ready" /\ workers[th].mode = "coldput"
  /\ \E a \in {LogAppend(kv, LogEntry("PUT", ColdTable, ColdKey(th), "a"))} :
       /\ ~a.err
       /\ kv' = a.kv
  /\ workers' = [workers EXCEPT ![th].at = "appended"]
  /\ StressFrame

\* bt.Insert(key, value) on the tree the worker's bt points at
ColdInsert(th) ==
  /\ workers[th].at = "appended"
  /\ IF workers[th].own = NoTree
     THEN \E m \in {Mutate(kv, "PUT", ColdTable, ColdKey(th), "a", TRUE)} :
            /\ kv' = m.kv
            /\ workers' = [workers EXCEPT ![th].at = "mutated"]
     ELSE \E r \in {Insert(workers[th].own, ColdKey(th), "a")} :
            /\ kv' = kv
            /\ workers' = [workers EXCEPT ![th].own = r.tree, ![th].at = "mutated"]
  /\ StressFrame

\* kv.Flush(table): the tree the map holds is written, the catalog saved,
\* and Put returns
ColdFlush(th) ==
  /\ workers[th].at = "mutated"
  /\ \E f \in {Flush(kv, ColdTable)} :
       /\ kv' = f.kv
       /\ workers' = [workers EXCEPT ![th].ok = ~f.err, ![th].at = "done"]
  /\ StressFrame

\* bt.Search(key) of Get on the tree the worker's bt points at
ColdSearch(th) ==
  /\ workers[th].at = "ready" /\ workers[th].mode = "coldget"
  /\ \E r \in {Search(IF workers[th].own = NoTree THEN kv.tables[ColdTable]
                      ELSE workers[th].own, ColdSeed)} :
       workers' = [workers EXCEPT ![th].got = r.found, ![th].at = "done"]
  /\ UNCHANGED kv
  /\ StressFrame

ColdNext ==
  \/ ColdCreateTable
  \/ ColdSeedPut
  \/ ColdReopen
  \/ \E th \in Threads, mode \in {"coldput", "coldget"} : ColdStart(th, mode)
  \/ \E th \in Threads : ColdLookup(th)
  \/ \E th \in Threads : ColdRead(th)
  \/ \E th \in Threads : ColdStore(th)
  \/ \E th \in Threads : ColdAppend(th)
  \/ \E th \in Threads : ColdInsert(th)
  \/ \E th \in Threads : ColdFlush(th)
  \/ \E th \in Threads : ColdSearch(th)

SpecCold == KVInit /\ [][ColdNext]_vars

\* C36: one tree per table is in use.  Once every worker has returned, the
\* key of each Put that returned success is found by a Get, and the next
\* Flush writes a page that holds it.
C36_OneTreePerTable ==
  \A th \in Threads :
    (Finished /\ workers[th].mode = "coldput" /\ workers[th].ok) =>
       /\ GetResult(kv, ColdTable, ColdKey(th)).found
       /\ \E f \in {Flush(kv, ColdTable)} :
            /\ ~f.err
            /\ \E m \in {Materialize(f.kv, ColdTable)} :
                 ~m.err /\ searchNode(m.tree.root, ColdKey(th)).found

\* ------------------------------ goroutines that create the same table
\* kv.catalog.Get(name): the call returns at once when the name is there
RaceCheck(th, degree) ==
  /\ workers[th].at = "new"
  /\ workers' = [workers EXCEPT
       ![th].mode = "create",
       ![th].j = degree,
       ![th].ok = (kv.catalog[ColdTable] = NoMeta),
       ![th].at = IF kv.catalog[ColdTable] = NoMeta THEN "checked" ELSE "done"]
  /\ UNCHANGED kv
  /\ StressFrame

\* the Lock, the new tree in the map, AllocatePage, Catalog.CreateTable,
\* Save, the deferred Unlock
RaceCreate(th) ==
  /\ workers[th].at = "checked"
  /\ kv.nextID < MaxAllocs
  /\ \E page \in {AllocatePage([kv EXCEPT !.tables[ColdTable] = NewBTree(workers[th].j)])} :
       \E created \in {CatalogCreateTable(page.kv, ColdTable, page.id, workers[th].j)} :
         \E r \in {IF created.err THEN created ELSE CatalogSave(created.kv)} :
           /\ kv' = r.kv
           /\ workers' = [workers EXCEPT ![th].ok = ~r.err, ![th].at = "done"]
  /\ StressFrame

\* a Put by a caller that saw the table created
RacePut(key) ==
  /\ kv.tables[ColdTable] # NoTree
  /\ Len(kv.wal) < MaxReopenLog
  /\ \E r \in {Put(kv, ColdTable, key, "a")} : kv' = r.kv
  /\ UNCHANGED workers
  /\ StressFrame

RaceNext ==
  \/ \E th \in Threads, degree \in 2..MaxDegree : RaceCheck(th, degree)
  \/ \E th \in Threads : RaceCreate(th)
  \/ \E key \in CatKeys : RacePut(key)

SpecRace == KVInit /\ [][RaceNext]_vars

\* C37: of two CreateTable calls for one name that run concurrently exactly
\* one succeeds, and the call that fails leaves the table's tree in memory
\* and the page counter as they were.
C37_ConcurrentCreate ==
  [][/\ Finished' => Cardinality({th \in Threads : workers'[th].ok}) = 1
     /\ \A th \in Threads :
          (workers[th].at # "done" /\ workers'[th].at = "done" /\ ~workers'[th].ok) =>
             /\ kv'.tables = kv.tables
             /\ kv'.nextID = kv.nextID
             /\ kv'.fl = kv.fl]_vars

\* C38: in every state, also after the store was closed and opened again,
\* two tables of the catalog have different root ids and every root id is
\* below the disk manager's next-allocation counter.
C38_RootsDistinctAndAllocated ==
  /\ \A t, u \in Registered(kv) :
       t # u => kv.catalog[t].RootID # kv.catalog[u].RootID
  /\ \A t \in Registered(kv) : kv.catalog[t].RootID < kv.nextID

\* ------------------------------- a table dropped and created again
DropFrame == UNCHANGED <<phase, pc, ret, pre, crashedAt, allOK, loadResult,
                         crashes, btVars, txVars, logVars, workers, flusher,
                         locks, session, reply>>

\* the call op on table ended as r
DropDone(op, table, r, found, key, e) ==
  /\ kv' = r.kv
  /\ last' = [op |-> op, table |-> table, err |-> r.err, panic |-> r.panic,
              same |-> (r.kv = kv),
              reg |-> (table \in Tables /\ kv.catalog[table] # NoMeta),
              mem |-> (table \in Tables /\ kv.tables[table] # NoTree),
              found |-> found, page |-> key, names |-> Registered(kv)]
  /\ epoch' = e
  /\ DropFrame

DropCreate(name, degree) ==
  /\ kv.nextID < MaxPages
  /\ \E r \in {CreateTableName(kv, name, degree)} :
       DropDone("CreateTable", name, r, FALSE, -1,
                IF r.err THEN epoch ELSE [epoch EXCEPT !.stale = Len(kv.wal)])

DropPut(table, key, value) ==
  /\ Len(kv.wal) < MaxCatLog
  /\ \E r \in {Put(kv, table, key, value)} :
       DropDone("Put", table, r, FALSE, key, epoch)

DropDrop(name) ==
  \E r \in {DropTable(kv, name)} :
    DropDone("DropTable", name, r, FALSE, -1, epoch)

DropGet(table, key) ==
  \E g \in {Get(kv, table, key)} :
    DropDone("Get", table, [kv |-> g.kv, err |-> g.err, panic |-> g.panic],
             g.found, key, epoch)

\* Close, and NewBTreeKVStore on the same two files
DropReopen ==
  /\ ~kv.closed
  /\ DropDone("Reopen", None, Ok(NewBTreeKVStore(kv.file, kv.wal)), FALSE, -1,
              [epoch EXCEPT !.opened = TRUE, !.loaded = FALSE])

DropLoad ==
  \E c \in {CatalogLoad(kv)} :
    \E order \in Orders(Registered(c.kv)) :
      \E r \in {Load(kv, order)} :
        DropDone("Load", None, r, FALSE, -1,
                 [epoch EXCEPT !.loaded = @ \/ (~r.err /\ ~r.panic)])

DropNext ==
  \/ \E name \in KVTables, degree \in 2..MaxDegree : DropCreate(name, degree)
  \/ \E table \in KVTables, key \in CatKeys, value \in KVVals :
       DropPut(table, key, value)
  \/ \E name \in KVTables : DropDrop(name)
  \/ \E table \in KVTables, key \in CatKeys : DropGet(table, key)
  \/ DropReopen
  \/ DropLoad

SpecDrop == KVInit /\ [][DropNext]_vars

\* C39: records of the log written for a table that was dropped afterwards
\* are not applied to a table created later under the same name: when every
\* record of the log was written before the table was created again, and
\* the store was opened again and loaded, Get finds no key in the table.
C39_DroppedRecordsNotReplayed ==
  (/\ last.op = "Get"
   /\ last.reg
   /\ epoch.opened
   /\ epoch.loaded
   /\ Len(kv.wal) > 0
   /\ epoch.stale = Len(kv.wal)) => (~last.found /\ ~last.err /\ ~last.panic)

\* C40: a table that was created and never written (no Put, Delete or Flush
\* on it) survives a restart: after the store is opened again Load returns
\* success, and Get finds no key in the table and returns no error.
C40_UnwrittenTableLoads ==
  (/\ last.op = "Load"
   /\ epoch.opened
   /\ kv.wal = <<>>
   /\ Registered(kv) # {}) =>
     /\ ~last.err
     /\ ~last.panic
     /\ \A t \in Registered(kv), k \in CatKeys :
          GetResult(kv, t, k) = [value |-> "", found |-> FALSE, err |-> FALSE]

====
